---- MODULE Spec2Model ----
(***************************************************************************)
(* Model of the document pipeline of onpremise-rag-system:                 *)
(*   src/src/chunker.py          TextChunker                               *)
(*   src/src/pdf_processor.py    PDFConfig, PDFProcessor                   *)
(*   src/src/batch_processor.py  BatchPDFProcessor                         *)
(* Strings are sequences of one-character strings; Python's 0-based,       *)
(* half-open slices are translated by Slice.                               *)
(***************************************************************************)
EXTENDS Integers, Sequences, FiniteSets, TLC

VARIABLES
    pc,           \* position of the component under study
    text,         \* chunker: the text handed to chunk_text
    max_length,   \* chunker: TextChunker.max_length
    overlap,      \* chunker: TextChunker.overlap
    chunks,       \* chunker: the list chunk_text returned
    src_window,   \* chunker: index (1-based) of the window chunked again
    rechunked,    \* chunker: chunk_text applied to chunks[src_window]
    loop_start,   \* chunker: the local `start` of the while loop of chunk_text
    toc,          \* ranges: the TOC entries handed to build_page_ranges
    total_pages,  \* ranges: len(pdf.pages)
    sections,     \* ranges: the list build_page_ranges returned
    line,         \* TOC parser: the line handed to parse_toc_line
    parsed,       \* TOC parser: <<>> for None, <<entry>> for a returned entry
    pages,        \* extractor: the cropped text of each page (<<>>: no text)
    slices,       \* extractor: raw_texts, start_idx, end of slice per section
    results,      \* extractor: the list extract_section_text returned
    pdf_dir,      \* batch: the files of the directory, file name -> pages
    pdf_files,    \* batch: the list get_pdf_files returned
    file_pos,     \* batch: 1-based position of the for loop in pdf_files
    batch_results,\* batch: the local list `results` of process_all
    all_chunks,   \* batch: the local list `all_chunks` of process_all
    batch_result, \* batch: the dict process_all returned
    handles,      \* process_pdf: the document handles that are open
    pdf_toc_page, \* process_pdf: toc_page_num, what find_toc_page returned (-1: None)
    pdf_error,    \* process_pdf: str(e) of the exception raised ("": none)
    io_log,       \* process_and_save: the writes and index builds done, in order
    save_error,   \* process_and_save: the exception raised ("": none)
    dup_chunks,   \* check_duplicates: the chunks handed to it
    dup_result,   \* check_duplicates: the dict it returned (<<>>: none yet)
    enrich_in,    \* enrich_with_metadata: the chunks handed to it
    enrich_name,  \* enrich_with_metadata: the document_name handed to it
    enrich_after, \* enrich_with_metadata: the input list after the call
    enriched,     \* enrich_with_metadata: the list it returned
    rag_sections, \* create_rag_chunks: the sections handed to it
    rag_chunks    \* create_rag_chunks: the list it returned

chunkVars ==
    <<text, max_length, overlap, chunks, src_window, rechunked, loop_start>>

rangeVars == <<toc, total_pages, sections>>

tocVars == <<line, parsed>>

extractVars == <<pages, slices, results>>

batchVars ==
    <<pdf_dir, pdf_files, file_pos, batch_results, all_chunks, batch_result>>

pdfVars == <<handles, pdf_toc_page, pdf_error>>

saveVars == <<io_log, save_error>>

dupVars == <<dup_chunks, dup_result>>

enrichVars == <<enrich_in, enrich_name, enrich_after, enriched>>

ragVars == <<rag_sections, rag_chunks>>

\* the variables of the methods of TextChunker that work on chunk records
recordVars == <<dupVars, enrichVars, ragVars>>

vars ==
    <<pc, chunkVars, rangeVars, tocVars, extractVars, batchVars, pdfVars,
      saveVars, recordVars>>

-----------------------------------------------------------------------------
(* Bounds of the model *)

\* longest text handed to chunk_text
MaxTextLen == 5

\* most pages of a document handed to process_pdf
MaxPdfPages == 4

\* most chunks handed to check_duplicates
MaxDupChunks == 4

\* most sections handed to create_rag_chunks
MaxRagSections == 2

\* most chunks handed to enrich_with_metadata
MaxEnrichChunks == 2
\* largest max_length of a TextChunker
MaxChunkLen == 4
\* longest TOC handed to build_page_ranges
MaxTocLen == 3
\* largest printed page number of a TOC entry
MaxPrintedPage == 4
\* largest page count of a document
MaxTotalPages == 3
\* longest enumerated line handed to parse_toc_line
MaxLineLen == 5
\* size of the largest enumerated document: its characters and page breaks
MaxDocLen == 6
\* largest chunk_size of a BatchPDFProcessor
MaxBatchChunkLen == 2

-----------------------------------------------------------------------------
(* Python helpers *)

Min(a, b) == IF a < b THEN a ELSE b

\* all sequences over S of length 0..n
SeqsUpTo(S, n) == UNION {[1..k -> S] : k \in 0..n}

\* s[a:b] for 0 <= a, 0 <= b
Slice(s, a, b) == SubSeq(s, a + 1, Min(b, Len(s)))

\* s[a:]
SliceFrom(s, a) == SubSeq(s, a + 1, Len(s))

-----------------------------------------------------------------------------
(* chunker.py: TextChunker.chunk_text *)

\* characters of the texts handed to the chunker
TextChars == {"a", "b"}

\* start = end - self.overlap, dropping the overlap (every window then starts
\* where the previous one ended)
NextStartNoOverlap(end, o) == end

\* start = end - self.overlap
NextStart(end, o) == end - o

\* the while loop of chunk_text, from the state (start, acc); each element
\* records the value of start at the append and the appended chunk
RECURSIVE ChunkLoop(_, _, _, _, _)
ChunkLoop(t, l, o, start, acc) ==
    IF start < Len(t)
    THEN LET end == start + l
             chunk == Slice(t, start, end)
         IN ChunkLoop(t, l, o, NextStart(end, o),
                      Append(acc, [start |-> start, chunk |-> chunk]))
    ELSE acc

\* the (start, chunk) pairs of the loop from chunks = [], start = 0
ChunkWindows(t, l, o) == ChunkLoop(t, l, o, 0, <<>>)

\* the returned list of chunks
chunk_text(t, l, o) ==
    LET w == ChunkWindows(t, l, o) IN [i \in 1..Len(w) |-> w[i].chunk]

-----------------------------------------------------------------------------
(* Specification of the chunker: a TextChunker(max_length, overlap) with
   0 <= overlap < max_length chunks a text, then chunks one of the returned
   windows again. *)

\* the chunker's variables while another component is studied
ChunkIdle ==
    /\ text = <<>>
    /\ max_length = 0
    /\ overlap = 0
    /\ chunks = <<>>
    /\ src_window = 0
    /\ rechunked = <<>>
    /\ loop_start = 0

\* the range builder's variables while another component is studied
RangeIdle ==
    /\ toc = <<>>
    /\ total_pages = 0
    /\ sections = <<>>

\* the TOC parser's variables while another component is studied
TocIdle ==
    /\ line = <<>>
    /\ parsed = <<>>

\* the extractor's variables while another component is studied
ExtractIdle ==
    /\ pages = <<>>
    /\ slices = <<>>
    /\ results = <<>>

\* the batch processor's variables while another component is studied
BatchIdle ==
    /\ pdf_dir = <<>>
    /\ pdf_files = <<>>
    /\ file_pos = 0
    /\ batch_results = <<>>
    /\ all_chunks = <<>>
    /\ batch_result = <<>>

\* the variables of process_pdf while another component is studied
PdfIdle ==
    /\ handles = {}
    /\ pdf_toc_page = -1
    /\ pdf_error = ""

\* the variables of process_and_save while another component is studied
SaveIdle ==
    /\ io_log = <<>>
    /\ save_error = ""

\* the variables of check_duplicates while another component is studied
DupIdle ==
    /\ dup_chunks = <<>>
    /\ dup_result = <<>>

\* the variables of enrich_with_metadata while another component is studied
EnrichIdle ==
    /\ enrich_in = <<>>
    /\ enrich_name = <<>>
    /\ enrich_after = <<>>
    /\ enriched = <<>>

\* the variables of create_rag_chunks while another component is studied
RagIdle ==
    /\ rag_sections = <<>>
    /\ rag_chunks = <<>>

RecordIdle == DupIdle /\ EnrichIdle /\ RagIdle

nonChunkVars ==
    <<rangeVars, tocVars, extractVars, batchVars, pdfVars, saveVars,
      recordVars>>

nonRangeVars ==
    <<chunkVars, tocVars, extractVars, batchVars, pdfVars, saveVars,
      recordVars>>

nonTocVars ==
    <<chunkVars, rangeVars, extractVars, batchVars, pdfVars, saveVars,
      recordVars>>

nonExtractVars ==
    <<chunkVars, tocVars, batchVars, pdfVars, saveVars, recordVars>>

nonBatchVars ==
    <<text, chunks, src_window, rechunked, loop_start, rangeVars, tocVars,
      extractVars,
      pdfVars, saveVars, recordVars>>

nonPdfVars == <<chunkVars, tocVars, slices, batchVars, saveVars, recordVars>>

nonSaveVars ==
    <<chunkVars, rangeVars, tocVars, extractVars, pdfVars, recordVars>>

\* the variables outside the methods that work on chunk records, but for the
\* configuration of the chunker
nonRecordVars ==
    <<text, chunks, src_window, rechunked, loop_start, rangeVars, tocVars,
      extractVars,
      batchVars, pdfVars, saveVars>>

NonChunkIdle ==
    /\ RangeIdle
    /\ TocIdle
    /\ ExtractIdle
    /\ BatchIdle
    /\ PdfIdle
    /\ SaveIdle
    /\ RecordIdle

NonRangeIdle ==
    /\ ChunkIdle
    /\ TocIdle
    /\ ExtractIdle
    /\ BatchIdle
    /\ PdfIdle
    /\ SaveIdle
    /\ RecordIdle

NonTocIdle ==
    /\ ChunkIdle
    /\ RangeIdle
    /\ ExtractIdle
    /\ BatchIdle
    /\ PdfIdle
    /\ SaveIdle
    /\ RecordIdle

NonExtractIdle ==
    /\ ChunkIdle
    /\ TocIdle
    /\ BatchIdle
    /\ PdfIdle
    /\ SaveIdle
    /\ RecordIdle

NonBatchIdle ==
    /\ text = <<>>
    /\ chunks = <<>>
    /\ src_window = 0
    /\ rechunked = <<>>
    /\ loop_start = 0
    /\ RangeIdle
    /\ TocIdle
    /\ ExtractIdle
    /\ PdfIdle
    /\ SaveIdle
    /\ RecordIdle

NonRecordIdle ==
    /\ text = <<>>
    /\ chunks = <<>>
    /\ src_window = 0
    /\ rechunked = <<>>
    /\ loop_start = 0
    /\ RangeIdle
    /\ TocIdle
    /\ ExtractIdle
    /\ BatchIdle
    /\ PdfIdle
    /\ SaveIdle

NonPdfIdle ==
    /\ ChunkIdle
    /\ TocIdle
    /\ slices = <<>>
    /\ BatchIdle
    /\ SaveIdle
    /\ RecordIdle

ChunkInit ==
    /\ pc = "chunk_ready"
    /\ NonChunkIdle
    /\ text \in SeqsUpTo(TextChars, MaxTextLen)
    /\ max_length \in 1..MaxChunkLen
    /\ overlap \in 0..(max_length - 1)
    /\ chunks = <<>>
    /\ src_window = 0
    /\ rechunked = <<>>
    /\ loop_start = 0

CallChunkText ==
    /\ pc = "chunk_ready"
    /\ chunks' = chunk_text(text, max_length, overlap)
    /\ pc' = "chunked"
    /\ UNCHANGED <<text, max_length, overlap, src_window, rechunked,
                   loop_start>>
    /\ UNCHANGED nonChunkVars

Rechunk ==
    /\ pc = "chunked"
    /\ \E i \in 1..Len(chunks) :
        /\ src_window' = i
        /\ rechunked' = chunk_text(chunks[i], max_length, overlap)
    /\ pc' = "rechunked"
    /\ UNCHANGED <<text, max_length, overlap, chunks, loop_start>>
    /\ UNCHANGED nonChunkVars

ChunkNext == CallChunkText \/ Rechunk

SpecChunk == ChunkInit /\ [][ChunkNext]_vars

-----------------------------------------------------------------------------
(* Claims about chunk_text *)

\* c[o:] of every window after the first, concatenated after the first window
RECURSIVE JoinTrimmed(_, _, _)
JoinTrimmed(cs, o, i) ==
    IF i > Len(cs) THEN <<>>
    ELSE (IF i = 1 THEN cs[1] ELSE SliceFrom(cs[i], o)) \o JoinTrimmed(cs, o, i + 1)

\* C1: removing the first `overlap` characters of every window after the first
\* and concatenating the windows in order gives back the text.
C1_Reconstruction ==
    pc \in {"chunked", "rechunked"} => JoinTrimmed(chunks, overlap, 1) = text

\* a text chunked into at least three windows, the last shorter than the overlap
C1_Witness ==
    /\ pc = "chunked"
    /\ Len(chunks) >= 3
    /\ overlap >= 2
    /\ Len(chunks[Len(chunks)]) < overlap

\* C5 as stated: every returned window, chunked again with the same
\* (max_length, overlap), comes back as the one-element list holding it.
C5_RechunkIsSingleton ==
    pc = "rechunked" => rechunked = <<chunks[src_window]>>

\* C5 amended: chunking a returned window again gives a list that starts with
\* the window, and that is the one-element list exactly when the window is at
\* most max_length - overlap characters long.
C5_RechunkStartsWithWindow ==
    pc = "rechunked" =>
        /\ Len(rechunked) >= 1
        /\ rechunked[1] = chunks[src_window]
        /\ (Len(rechunked) = 1
              <=> Len(chunks[src_window]) <= max_length - overlap)

\* a full-length window that chunk_text splits into several windows
C5_Witness ==
    /\ pc = "rechunked"
    /\ Len(chunks[src_window]) = max_length
    /\ Len(rechunked) >= 2

\* the number of text positions windows i and i+1 have in common
SharedPositions(t, l, o, i) ==
    LET w == ChunkWindows(t, l, o)
    IN (w[i].start + Len(w[i].chunk)) - w[i + 1].start

\* the last k characters of s
Suffix(s, k) == SubSeq(s, Len(s) - k + 1, Len(s))

\* the first k characters of s
Prefix(s, k) == SubSeq(s, 1, k)

\* C6 as stated: two consecutive windows of which the later is not the final
\* window share exactly `overlap` characters, the last `overlap` characters of
\* the earlier being the first `overlap` characters of the later.
C6_NonFinalPairsShareOverlap ==
    pc = "chunked" =>
        \A i \in 1..(Len(chunks) - 1) :
            i + 1 < Len(chunks) =>
                /\ SharedPositions(text, max_length, overlap, i) = overlap
                /\ Len(chunks[i]) >= overlap
                /\ Len(chunks[i + 1]) >= overlap
                /\ Suffix(chunks[i], overlap) = Prefix(chunks[i + 1], overlap)

\* C6 amended: two consecutive windows share exactly min(overlap, length of the
\* later window) characters, the last that many characters of the earlier being
\* the first of the later; that is `overlap` whenever the earlier window has the
\* full length max_length.
C6_PairsShareMinOverlapLater ==
    pc = "chunked" =>
        \A i \in 1..(Len(chunks) - 1) :
            LET k == Min(overlap, Len(chunks[i + 1]))
            IN /\ SharedPositions(text, max_length, overlap, i) = k
               /\ Len(chunks[i]) >= k
               /\ Suffix(chunks[i], k) = Prefix(chunks[i + 1], k)
               /\ (Len(chunks[i]) = max_length => k = overlap)

\* a non-final later window that is shorter than the overlap
C6_Witness ==
    /\ pc = "chunked"
    /\ \E i \in 1..(Len(chunks) - 1) :
          /\ i + 1 < Len(chunks)
          /\ Len(chunks[i + 1]) < overlap

-----------------------------------------------------------------------------
(* pdf_processor.py: PDFProcessor.build_page_ranges *)

\* end = next_page - 2: the page before the next section's first page
EndPageBeforeNext(t, i, total) ==
    IF i + 1 <= Len(t)
    THEN LET next_page == t[i + 1].page
         IN IF next_page - t[i].page >= 1
            THEN next_page - 2
            ELSE t[i].page - 1
    ELSE total - 1

\* the else branch of the page comparison left out
EndPageNoCollapse(t, i, total) ==
    IF i + 1 <= Len(t)
    THEN t[i + 1].page - 1
    ELSE total - 1

\* end = total_pages for the last entry
EndPageLastOffByOne(t, i, total) ==
    IF i + 1 <= Len(t)
    THEN LET next_page == t[i + 1].page
         IN IF next_page - t[i].page >= 1
            THEN next_page - 1
            ELSE t[i].page - 1
    ELSE total

\* the value of `end` for entry i (1-based) of the list t
EndPage(t, i, total) ==
    IF i + 1 <= Len(t)
    THEN LET next_page == t[i + 1].page
         IN IF next_page - t[i].page >= 1
            THEN next_page - 1
            ELSE t[i].page - 1
    ELSE total - 1

\* {**sec, "start_page": start, "end_page": end}
WithRange(sec, start, end) ==
    [section_id |-> sec.section_id, section_title |-> sec.section_title,
     page |-> sec.page, start_page |-> start, end_page |-> end]

build_page_ranges(t, total) ==
    [i \in 1..Len(t) |-> WithRange(t[i], t[i].page - 1, EndPage(t, i, total))]

-----------------------------------------------------------------------------
(* Specification of the range builder: build_page_ranges is called on a
   non-empty TOC whose printed pages are whatever the page regex can read
   (any number from 0 up), in any order, and on a page count of at least 1. *)

\* the TOC entries of the range builder's inputs
RangeEntries ==
    {[section_id |-> <<"1">>, section_title |-> <<"T">>, page |-> p] :
        p \in 0..MaxPrintedPage}

RangeInit ==
    /\ pc = "range_ready"
    /\ NonRangeIdle
    /\ toc \in (SeqsUpTo(RangeEntries, MaxTocLen) \ {<<>>})
    /\ total_pages \in 1..MaxTotalPages
    /\ sections = <<>>

CallBuildPageRanges ==
    /\ pc = "range_ready"
    /\ sections' = build_page_ranges(toc, total_pages)
    /\ pc' = "ranged"
    /\ UNCHANGED <<toc, total_pages>>
    /\ UNCHANGED nonRangeVars

RangeNext == CallBuildPageRanges

SpecRanges == RangeInit /\ [][RangeNext]_vars

-----------------------------------------------------------------------------
(* Claims about build_page_ranges *)

\* the 0-based pages of a section
PagesOf(sec) == sec.start_page..sec.end_page

StartsNonDecreasing ==
    \A i \in 1..(Len(sections) - 1) :
        sections[i].start_page <= sections[i + 1].start_page

PrintedPagesNonDecreasing ==
    \A i \in 1..(Len(toc) - 1) : toc[i].page <= toc[i + 1].page

NoPageBetweenRanges ==
    \A i \in 1..(Len(sections) - 1) :
        sections[i + 1].start_page <= sections[i].end_page + 1

LastEndsAtLastPage ==
    sections[Len(sections)].end_page = total_pages - 1

\* C3 as stated: for every non-empty TOC, whatever its printed pages and their
\* order, start_page is non-decreasing along the sections, no page lies between
\* two consecutive ranges, and the last end_page is total_pages - 1.
C3_MonotoneContiguousForAnyToc ==
    pc = "ranged" =>
        /\ StartsNonDecreasing
        /\ NoPageBetweenRanges
        /\ LastEndsAtLastPage

\* C3 amended: for every non-empty TOC no page lies between two consecutive
\* ranges and the last end_page is total_pages - 1; start_page is non-decreasing
\* along the sections exactly when the printed pages are non-decreasing along
\* the TOC.
C3_ContiguousAndMonotoneIffTocIs ==
    pc = "ranged" =>
        /\ Len(sections) = Len(toc)
        /\ NoPageBetweenRanges
        /\ LastEndsAtLastPage
        /\ (StartsNonDecreasing <=> PrintedPagesNonDecreasing)

\* a TOC of three entries whose printed pages go down and up again
C3_Witness ==
    /\ pc = "ranged"
    /\ Len(toc) = 3
    /\ toc[1].page > toc[2].page
    /\ toc[2].page < toc[3].page
    /\ ~StartsNonDecreasing

\* C4 as stated: no returned section has end_page < start_page, for any TOC and
\* any total_pages.
C4_NoNegativeRange ==
    pc = "ranged" =>
        \A i \in 1..Len(sections) :
            sections[i].end_page >= sections[i].start_page

\* C4 amended: no non-final section has end_page < start_page, and when the
\* next printed page is not strictly greater end_page = start_page; the final
\* section, whose end_page is total_pages - 1, has end_page < start_page exactly
\* when its printed page is greater than total_pages.
C4_NoNegativeRangeBeforeLast ==
    pc = "ranged" =>
        /\ \A i \in 1..(Len(sections) - 1) :
              /\ sections[i].end_page >= sections[i].start_page
              /\ (toc[i + 1].page <= toc[i].page
                    => sections[i].end_page = sections[i].start_page)
        /\ (sections[Len(sections)].end_page < sections[Len(sections)].start_page
              <=> toc[Len(toc)].page > total_pages)

\* a TOC with a printed page repeated and another going down, and a last entry
\* printed beyond the document's last page
C4_Witness ==
    /\ pc = "ranged"
    /\ Len(toc) = 3
    /\ toc[2].page < toc[1].page
    /\ sections[1].end_page = sections[1].start_page
    /\ toc[3].page > total_pages
    /\ sections[3].end_page < sections[3].start_page

-----------------------------------------------------------------------------
(* Regular expressions of pdf_processor.py, on strings as sequences of
   characters. Offsets are 0-based as in Python: the character at offset i of
   s is s[i + 1]. *)

\* \d
IsDigit(c) == c \in {"0", "1", "2", "3", "4", "5", "6", "7", "8", "9"}

\* \s
IsSpace(c) == c \in {" ", "\t", "\n", "\r", "\f"}

At(s, i) == s[i + 1]

\* the offset where the run of digits starting at offset i ends (\d* from i)
DigitsEnd(s, i) ==
    CHOOSE j \in i..Len(s) :
        /\ \A k \in i..(j - 1) : IsDigit(At(s, k))
        /\ (j = Len(s) \/ ~IsDigit(At(s, j)))

\* the offset where the run of whitespace starting at offset i ends (\s* from i)
SpaceEnd(s, i) ==
    CHOOSE j \in i..Len(s) :
        /\ \A k \in i..(j - 1) : IsSpace(At(s, k))
        /\ (j = Len(s) \/ ~IsSpace(At(s, j)))

\* str.strip()
Strip(s) ==
    LET a == SpaceEnd(s, 0)
    IN IF a = Len(s) THEN <<>>
       ELSE LET b == CHOOSE j \in (a + 1)..Len(s) :
                        /\ ~IsSpace(s[j])
                        /\ \A k \in (j + 1)..Len(s) : IsSpace(s[k])
            IN SubSeq(s, a + 1, b)

\* int() of a string of decimal digits
DigitValue(c) ==
    CASE c = "0" -> 0 [] c = "1" -> 1 [] c = "2" -> 2 [] c = "3" -> 3
      [] c = "4" -> 4 [] c = "5" -> 5 [] c = "6" -> 6 [] c = "7" -> 7
      [] c = "8" -> 8 [] c = "9" -> 9

RECURSIVE ParseInt(_)
ParseInt(ds) ==
    IF ds = <<>> THEN 0
    ELSE 10 * ParseInt(SubSeq(ds, 1, Len(ds) - 1)) + DigitValue(ds[Len(ds)])

\* PAGE_REGEX = (\d+)\s*$ : the offsets at which it matches
PageMatchStarts(s) ==
    {i \in 0..(Len(s) - 1) :
        /\ DigitsEnd(s, i) > i
        /\ SpaceEnd(s, DigitsEnd(s, i)) = Len(s)}

\* PAGE_REGEX.search(s): -1 for no match, else the offset of the leftmost match
PageSearch(s) ==
    IF PageMatchStarts(s) = {} THEN -1
    ELSE CHOOSE i \in PageMatchStarts(s) : \A j \in PageMatchStarts(s) : i <= j

\* group(1) of the match found at offset i
PageGroup(s, i) == Slice(s, i, DigitsEnd(s, i))

\* PAGE_REGEX.sub("", s): the one match reaches the end of s
PageSub(s) == IF PageSearch(s) = -1 THEN s ELSE Slice(s, 0, PageSearch(s))

\* DOTS_REGEX.sub(" ", s), DOTS_REGEX = \.{2,} : from offset i on
RECURSIVE DotsSubFrom(_, _)
DotsSubFrom(s, i) ==
    IF i >= Len(s) THEN <<>>
    ELSE LET j == CHOOSE e \in i..Len(s) :
                      /\ \A k \in i..(e - 1) : At(s, k) = "."
                      /\ (e = Len(s) \/ At(s, e) # ".")
         IN IF j - i >= 2 THEN <<" ">> \o DotsSubFrom(s, j)
            ELSE <<At(s, i)>> \o DotsSubFrom(s, i + 1)

DotsSub(s) == DotsSubFrom(s, 0)

\* the result of matching one alternative of SECTION_REGEX at offset 0
NoMatch == [ok |-> FALSE, group |-> <<>>, end |-> 0]

Matched(g, e) == [ok |-> TRUE, group |-> g, end |-> e]

\* the greedy match of (?:\.\d+)* from offset g: pos is where it ends, k the
\* number of repetitions, prev where the last repetition starts
RECURSIVE DottedTail(_, _, _, _)
DottedTail(s, g, k, prev) ==
    IF g + 1 < Len(s) /\ At(s, g) = "." /\ IsDigit(At(s, g + 1))
    THEN DottedTail(s, DigitsEnd(s, g + 1), k + 1, g)
    ELSE [pos |-> g, k |-> k, prev |-> prev]

\* ^(\d+(?:\.\d+)+)\.   "1.1." : when the greedy match of the group is not
\* followed by a dot, the engine gives up the last repetition, whose first
\* character is a dot
MatchDottedDot(s) ==
    LET a == DigitsEnd(s, 0)
        d == DottedTail(s, a, 0, a)
    IN IF a = 0 \/ d.k = 0 THEN NoMatch
       ELSE IF d.pos < Len(s) /\ At(s, d.pos) = "."
            THEN Matched(Slice(s, 0, d.pos), d.pos + 1)
            ELSE IF d.k >= 2
                 THEN Matched(Slice(s, 0, d.prev), d.prev + 1)
                 ELSE NoMatch

\* ^(\d+(?:\.\d+)+)\s+   "1.1 "
MatchDottedSpace(s) ==
    LET a == DigitsEnd(s, 0)
        d == DottedTail(s, a, 0, a)
    IN IF a = 0 \/ d.k = 0 THEN NoMatch
       ELSE IF d.pos < Len(s) /\ IsSpace(At(s, d.pos))
            THEN Matched(Slice(s, 0, d.pos), SpaceEnd(s, d.pos))
            ELSE NoMatch

\* ^(\d+\.\s+\d+)   "1. 1"
MatchDotSpaceDigit(s) ==
    LET a == DigitsEnd(s, 0)
    IN IF a = 0 \/ a >= Len(s) \/ At(s, a) # "." THEN NoMatch
       ELSE LET b == SpaceEnd(s, a + 1)
                c == DigitsEnd(s, b)
            IN IF b > a + 1 /\ c > b
               THEN Matched(Slice(s, 0, c), c)
               ELSE NoMatch

\* ^(\d+)\.   "1."
MatchDigitsDot(s) ==
    LET a == DigitsEnd(s, 0)
    IN IF a > 0 /\ a < Len(s) /\ At(s, a) = "."
       THEN Matched(Slice(s, 0, a), a + 1)
       ELSE NoMatch

\* ^(\d+)\s+   "1 "
MatchDigitsSpace(s) ==
    LET a == DigitsEnd(s, 0)
    IN IF a > 0 /\ a < Len(s) /\ IsSpace(At(s, a))
       THEN Matched(Slice(s, 0, a), SpaceEnd(s, a))
       ELSE NoMatch

\* SECTION_PATTERNS[k] matched at offset 0 of s, k = 1..5
MatchPattern(k, s) ==
    CASE k = 1 -> MatchDottedDot(s)
      [] k = 2 -> MatchDottedSpace(s)
      [] k = 3 -> MatchDotSpaceDigit(s)
      [] k = 4 -> MatchDigitsDot(s)
      [] k = 5 -> MatchDigitsSpace(s)

\* the single-level grammars tried before the multi-level ones
SectionSearchSingleLevelFirst(s) ==
    IF MatchPattern(4, s).ok THEN MatchPattern(4, s)
    ELSE IF MatchPattern(5, s).ok THEN MatchPattern(5, s)
    ELSE IF MatchPattern(1, s).ok THEN MatchPattern(1, s)
    ELSE IF MatchPattern(2, s).ok THEN MatchPattern(2, s)
    ELSE MatchPattern(3, s)

\* SECTION_REGEX.search(s), SECTION_REGEX = "|".join(SECTION_PATTERNS): every
\* alternative starts with ^, so the match is at offset 0, and the alternatives
\* are tried from left to right
SectionSearch(s) ==
    IF MatchPattern(1, s).ok THEN MatchPattern(1, s)
    ELSE IF MatchPattern(2, s).ok THEN MatchPattern(2, s)
    ELSE IF MatchPattern(3, s).ok THEN MatchPattern(3, s)
    ELSE IF MatchPattern(4, s).ok THEN MatchPattern(4, s)
    ELSE MatchPattern(5, s)

\* section_id.replace(" ", "")
RECURSIVE RemoveSpaces(_)
RemoveSpaces(s) ==
    IF s = <<>> THEN <<>>
    ELSE (IF s[1] = " " THEN <<>> ELSE <<s[1]>>) \o RemoveSpaces(Tail(s))

-----------------------------------------------------------------------------
(* pdf_processor.py: PDFProcessor.parse_toc_line; None is <<>>, a returned
   entry e is <<e>> *)

TocEntry(id, title, page) ==
    [section_id |-> id, section_title |-> title, page |-> page]

\* the title: what follows the section match, without the page number and the
\* dot leaders
TitlePart(s, end) ==
    Strip(DotsSub(Strip(PageSub(Strip(SliceFrom(s, end))))))

parse_toc_line(l) ==
    LET s == Strip(l)
    IN IF s = <<>> THEN <<>>
       ELSE IF PageSearch(s) = -1 THEN <<>>
       ELSE LET page == ParseInt(PageGroup(s, PageSearch(s)))
                section_match == SectionSearch(s)
            IN IF ~section_match.ok THEN <<>>
               ELSE <<TocEntry(RemoveSpaces(section_match.group),
                               TitlePart(s, section_match.end),
                               page)>>

-----------------------------------------------------------------------------
(* Specification of the TOC line parser: parse_toc_line is called on every
   line of at most MaxLineLen characters over LineChars and on the two lines
   the specification gives as examples. *)

\* characters of the enumerated lines: digits, the dot, a blank, a letter
LineChars == {"1", "2", ".", " ", "P"}

\* "1.1.  Purpose ..... 12"
ExampleLineMulti ==
    <<"1", ".", "1", ".", " ", " ", "P", "u", "r", "p", "o", "s", "e", " ", ".", ".", ".", ".", ".", " ", "1", "2">>

\* "1.  Scope ..... 3"
ExampleLineSingle ==
    <<"1", ".", " ", " ", "S", "c", "o", "p", "e", " ", ".", ".", ".", ".", ".", " ", "3">>

\* "1 A  B 3": two blanks inside the title
LineTwoBlanks == <<"1", " ", "A", " ", " ", "B", " ", "3">>

\* "1. A ... B 3": a dot leader inside the title
LineInnerDots == <<"1", ".", " ", "A", " ", ".", ".", ".", " ", "B", " ", "3">>

\* "1. 1 T 5": a blank inside the numbering token
LineBlankInToken == <<"1", ".", " ", "1", " ", "T", " ", "5">>

\* "1.<TAB>1 T 5": a tab inside the numbering token
LineTabInToken == <<"1", ".", "\t", "1", " ", "T", " ", "5">>

\* lines longer than MaxLineLen with whitespace inside the title or the token
SpacedLines == {LineTwoBlanks, LineInnerDots, LineBlankInToken, LineTabInToken}

TocInit ==
    /\ pc = "toc_ready"
    /\ NonTocIdle
    /\ line \in (SeqsUpTo(LineChars, MaxLineLen)
                   \cup {ExampleLineMulti, ExampleLineSingle}
                   \cup SpacedLines)
    /\ parsed = <<>>

CallParseTocLine ==
    /\ pc = "toc_ready"
    /\ parsed' = parse_toc_line(line)
    /\ pc' = "toc_parsed"
    /\ UNCHANGED line
    /\ UNCHANGED nonTocVars

TocNext == CallParseTocLine

SpecToc == TocInit /\ [][TocNext]_vars

-----------------------------------------------------------------------------
(* Claims about parse_toc_line *)

\* the alternatives of SECTION_REGEX that match the stripped line
MatchingPatterns(l) == {k \in 1..5 : MatchPattern(k, Strip(l)).ok}

\* the alternative of lowest index that matches the stripped line
FirstMatchingPattern(l) ==
    CHOOSE k \in MatchingPatterns(l) : \A j \in MatchingPatterns(l) : k <= j

HasDot(s) == \E i \in 1..Len(s) : s[i] = "."

\* C7: the section id of a returned entry is the group of the first grammar, in
\* the order "1.1.", "1.1 ", "1. 1", "1.", "1 ", that matches at the start of
\* the line; a line that a multi-level grammar matches gets a multi-level id
\* although a single-level grammar matches it too; "1.1.  Purpose ..... 12"
\* gives ("1.1", "Purpose", 12) and "1.  Scope ..... 3" gives id "1".
C7_FirstGrammarWins ==
    pc = "toc_parsed" =>
        /\ parsed # <<>> =>
              /\ MatchingPatterns(line) # {}
              /\ parsed[1].section_id =
                    RemoveSpaces(MatchPattern(FirstMatchingPattern(line),
                                              Strip(line)).group)
              /\ (MatchingPatterns(line) \cap {1, 2} # {}
                    => HasDot(parsed[1].section_id))
        /\ line = ExampleLineMulti =>
              parsed = <<TocEntry(<<"1", ".", "1">>, <<"P", "u", "r", "p", "o", "s", "e">>, 12)>>
        /\ line = ExampleLineSingle =>
              /\ parsed # <<>>
              /\ parsed[1].section_id = <<"1">>

\* the example line "1.1.  Purpose ..... 12" parsed, which both "1.1." and "1."
\* match
C7_Witness ==
    /\ pc = "toc_parsed"
    /\ line = ExampleLineMulti
    /\ MatchingPatterns(line) = {1, 4}
    /\ parsed # <<>>
    /\ parsed[1].section_id = <<"1", ".", "1">>

-----------------------------------------------------------------------------
(* pdf_processor.py: PDFProcessor.extract_section_text. A document is the
   sequence of the cropped texts of its pages, page index p being pages[p + 1];
   a page without text is <<>>. *)

\* pdf.pages[p] raises IndexError
PageIndexError(pgs, p) == p >= Len(pgs) \/ p < -Len(pgs)

\* pdf.pages[p], cropped, extract_text(): a negative index counts from the end
PageText(pgs, p) == IF p >= 0 THEN pgs[p + 1] ELSE pgs[Len(pgs) + p + 1]

\* raw_texts of a section: page_text + "\n" of every page of the range that
\* has text, from page p on
RECURSIVE StitchFrom(_, _, _)
StitchFrom(pgs, p, end_page) ==
    IF p > end_page THEN <<>>
    ELSE (IF PageText(pgs, p) # <<>> THEN PageText(pgs, p) \o <<"\n">> ELSE <<>>)
            \o StitchFrom(pgs, p + 1, end_page)

Stitch(pgs, sec) == StitchFrom(pgs, sec.start_page, sec.end_page)

\* the literal w occurs in s at offset i
LiteralAt(s, i, w) ==
    /\ i + Len(w) <= Len(s)
    /\ \A k \in 1..Len(w) : s[i + k] = w[k]

\* the offsets k at which the literal title can follow id\s+ matched at i
AnchorTitleOffsets(s, i, id, title) ==
    {k \in (i + Len(id) + 1)..SpaceEnd(s, i + Len(id)) : LiteralAt(s, k, title)}

\* re.escape(id) + r'\s+' + re.escape(title) matches at offset i
AnchorAt(s, i, id, title) ==
    /\ LiteralAt(s, i, id)
    /\ AnchorTitleOffsets(s, i, id, title) # {}

\* m.end() of the match at offset i: \s+ is greedy
AnchorEnd(s, i, id, title) ==
    LET ks == AnchorTitleOffsets(s, i, id, title)
    IN (CHOOSE k \in ks : \A j \in ks : j <= k) + Len(title)

\* the offset of the last match instead of the first
AnchorSearchLast(s, id, title) ==
    LET occ == {i \in 0..Len(s) : AnchorAt(s, i, id, title)}
    IN IF occ = {} THEN -1
       ELSE CHOOSE i \in occ : \A j \in occ : j <= i

\* re.search(pattern, raw_texts): -1 for None, else the offset of the match
AnchorSearch(s, id, title) ==
    LET occ == {i \in 0..Len(s) : AnchorAt(s, i, id, title)}
    IN IF occ = {} THEN -1
       ELSE CHOOSE i \in occ : \A j \in occ : i <= j

\* r'\n\s*' + re.escape(next_sec_id) + r'[\.\s]' matches at offset i
MarkerAt(s, i, id) ==
    /\ i < Len(s)
    /\ At(s, i) = "\n"
    /\ \E k \in (i + 1)..SpaceEnd(s, i + 1) :
          /\ LiteralAt(s, k, id)
          /\ k + Len(id) < Len(s)
          /\ (At(s, k + Len(id)) = "." \/ IsSpace(At(s, k + Len(id))))

\* re.search(next_pattern, s): -1 for None, else m.start()
MarkerSearch(s, id) ==
    LET occ == {i \in 0..Len(s) : MarkerAt(s, i, id)}
    IN IF occ = {} THEN -1
       ELSE CHOOSE i \in occ : \A j \in occ : i <= j

\* the marker searched in the whole buffer instead of raw_texts[start_idx:]
SliceEndWholeBuffer(raw, start_idx, secs, n) ==
    IF n < Len(secs)
    THEN LET m_end == MarkerSearch(raw, secs[n + 1].section_id)
         IN IF m_end # -1 THEN m_end ELSE Len(raw)
    ELSE Len(raw)

\* the offset in raw_texts where the slice of section n (1-based) ends
SliceEnd(raw, start_idx, secs, n) ==
    IF n < Len(secs)
    THEN LET m_end == MarkerSearch(SliceFrom(raw, start_idx),
                                   secs[n + 1].section_id)
         IN IF m_end # -1 THEN start_idx + m_end ELSE Len(raw)
    ELSE Len(raw)

\* start_idx = m_start.end() if m_start else 0
SliceStart(raw, sec) ==
    LET m_start == AnchorSearch(raw, sec.section_id, sec.section_title)
    IN IF m_start # -1
       THEN AnchorEnd(raw, m_start, sec.section_id, sec.section_title)
       ELSE 0

\* the locals of the loop body for section n (1-based)
SectionSlice(pgs, secs, n) ==
    LET raw == Stitch(pgs, secs[n])
        start_idx == SliceStart(raw, secs[n])
        end_idx == SliceEnd(raw, start_idx, secs, n)
    IN [raw_texts |-> raw, start_idx |-> start_idx, end_idx |-> end_idx,
        sliced |-> Slice(raw, start_idx, end_idx)]

\* {**sec, "text": sliced.strip()}
WithText(sec, t) ==
    [section_id |-> sec.section_id, section_title |-> sec.section_title,
     page |-> sec.page, start_page |-> sec.start_page,
     end_page |-> sec.end_page, text |-> t]

\* the result list of extract_section_text when no page index is out of range
extract_section_text(pgs, secs) ==
    [n \in 1..Len(secs) |->
        WithText(secs[n], Strip(SectionSlice(pgs, secs, n).sliced))]

\* extract_section_text raises IndexError: a section asks for a page the
\* document does not have
ExtractRaises(pgs, secs) ==
    \E n \in 1..Len(secs) :
        \E q \in secs[n].start_page..secs[n].end_page : PageIndexError(pgs, q)

-----------------------------------------------------------------------------
(* Specification of the section text extractor: process_pdf has read a TOC of
   two entries, section "1" on the first page and section "2" on the last, and
   built their page ranges; extract_section_text is called on them and on every
   document of at most MaxDocLen characters and page breaks over PageChars. *)

\* characters of the page texts: the two section ids, a title and body letter,
\* the line break and the dot
PageChars == {"1", "2", "T", "\n", "."}

\* the mark between the texts of two pages in a document written as one string
PageBreak == "|"

\* the page texts of a document written as one string, pages separated by
\* PageBreak: the text before the first mark, then the pages of the rest
RECURSIVE SplitPages(_)
SplitPages(d) ==
    LET brk == {i \in 1..Len(d) : d[i] = PageBreak}
    IN IF brk = {} THEN <<d>>
       ELSE LET b == CHOOSE i \in brk : \A j \in brk : i <= j
            IN <<SubSeq(d, 1, b - 1)>> \o SplitPages(SubSeq(d, b + 1, Len(d)))

\* the TOC read from the document: section "1" at printed page 1, section "2"
\* at the last page
ExtractToc(n) == <<TocEntry(<<"1">>, <<"T">>, 1), TocEntry(<<"2">>, <<"T">>, n)>>

ExtractInit ==
    /\ pc = "extract_ready"
    /\ NonExtractIdle
    /\ \E d \in SeqsUpTo(PageChars \cup {PageBreak}, MaxDocLen) :
          pages = SplitPages(d)
    /\ total_pages = Len(pages)
    /\ toc = ExtractToc(total_pages)
    /\ sections = build_page_ranges(toc, total_pages)
    /\ slices = <<>>
    /\ results = <<>>

CallExtractSectionText ==
    /\ pc = "extract_ready"
    /\ slices' = [n \in 1..Len(sections) |-> SectionSlice(pages, sections, n)]
    /\ results' = extract_section_text(pages, sections)
    /\ pc' = "extracted"
    /\ UNCHANGED <<pages, rangeVars>>
    /\ UNCHANGED nonExtractVars

ExtractNext == CallExtractSectionText

SpecExtract == ExtractInit /\ [][ExtractNext]_vars

-----------------------------------------------------------------------------
(* Claims about extract_section_text *)

\* every character of s from offset a up to, not including, offset b is
\* whitespace
AllSpace(s, a, b) == \A j \in a..(b - 1) : IsSpace(At(s, j))

\* the section id, then whitespace, then the title occur in s from offset i,
\* the title at offset k
HeaderOccursAt(s, i, k, id, title) ==
    /\ LiteralAt(s, i, id)
    /\ k > i + Len(id)
    /\ k <= Len(s)
    /\ AllSpace(s, i + Len(id), k)
    /\ LiteralAt(s, k, title)

HeaderOffsets(s, id, title) ==
    {i \in 0..Len(s) : \E k \in i..Len(s) : HeaderOccursAt(s, i, k, id, title)}

\* C8: the body of a section starts right after the leftmost occurrence, in the
\* section's stitched page buffer, of section_id, whitespace, section_title;
\* without an occurrence it starts at offset 0; one SectionText is returned per
\* section either way.
C8_BodyStartsAfterFirstHeader ==
    pc = "extracted" =>
        /\ Len(results) = Len(sections)
        /\ \A n \in 1..Len(sections) :
              LET raw == slices[n].raw_texts
                  id == sections[n].section_id
                  title == sections[n].section_title
                  occ == HeaderOffsets(raw, id, title)
              IN /\ raw = Stitch(pages, sections[n])
                 /\ results[n].section_id = id
                 /\ results[n].section_title = title
                 /\ occ = {} => slices[n].start_idx = 0
                 /\ occ # {} =>
                       \E i \in occ :
                          /\ \A j \in occ : i <= j
                          /\ HeaderOccursAt(raw, i, slices[n].start_idx - Len(title),
                                            id, title)

\* section "1" whose buffer holds its header twice, and section "2" whose
\* buffer does not hold its header
C8_Witness ==
    /\ pc = "extracted"
    /\ Cardinality(HeaderOffsets(slices[1].raw_texts, sections[1].section_id,
                                 sections[1].section_title)) >= 2
    /\ slices[1].start_idx > 0
    /\ results[1].text # <<>>
    /\ HeaderOffsets(slices[2].raw_texts, sections[2].section_id,
                     sections[2].section_title) = {}
    /\ slices[2].start_idx = 0
    /\ results[2].text # <<>>

\* the offsets, from offset `from` on, of a line break followed by optional
\* whitespace, the id, and a period or whitespace
BoundaryOffsets(s, from, id) ==
    {i \in from..(Len(s) - 1) :
        /\ At(s, i) = "\n"
        /\ \E k \in (i + 1)..Len(s) :
              /\ AllSpace(s, i + 1, k)
              /\ LiteralAt(s, k, id)
              /\ k + Len(id) < Len(s)
              /\ (At(s, k + Len(id)) = "." \/ IsSpace(At(s, k + Len(id))))}

\* C9: the body of a non-final section ends at the first occurrence, from the
\* body start on, of a line break, optional whitespace, the next section's id
\* and a period or whitespace; without one, and for the final section, it runs
\* to the end of the buffer; the text is that slice stripped, and the body end
\* is not before the body start.
C9_BodyEndsAtNextMarker ==
    pc = "extracted" =>
        \A n \in 1..Len(sections) :
            LET raw == slices[n].raw_texts
                a == slices[n].start_idx
                b == slices[n].end_idx
                occ == IF n < Len(sections)
                       THEN BoundaryOffsets(raw, a, sections[n + 1].section_id)
                       ELSE {}
            IN /\ a <= b
               /\ b <= Len(raw)
               /\ occ = {} => b = Len(raw)
               /\ occ # {} => (b \in occ /\ \A j \in occ : b <= j)
               /\ results[n].text = Strip(SubSeq(raw, a + 1, b))

\* section "1" with its header found, a body that is not empty and the marker
\* of section "2" found after it
C9_Witness ==
    /\ pc = "extracted"
    /\ slices[1].start_idx > 0
    /\ slices[1].end_idx < Len(slices[1].raw_texts)
    /\ results[1].text # <<>>
    /\ slices[2].end_idx = Len(slices[2].raw_texts)

-----------------------------------------------------------------------------
(* pdf_processor.py: find_toc_page, extract_toc, process_pdf. A Hangul
   syllable is written as one character named by its romanisation in
   brackets: "[mok]" is U+BAA9, "[cha]" is U+CC28. *)

\* PDFConfig.TOC_KEYWORD: U+BAA9, blank, U+CC28
TOC_KEYWORD == <<"[mok]", " ", "[cha]">>

\* PDFConfig.MAX_TOC_PAGES
MAX_TOC_PAGES == 3

\* w in s
Contains(s, w) == \E i \in 0..Len(s) : LiteralAt(s, i, w)

\* find_toc_page: the index of the first page whose text holds the keyword,
\* -1 for None
find_toc_page(pgs) ==
    LET hits == {q \in 0..(Len(pgs) - 1) :
                    pgs[q + 1] # <<>> /\ Contains(pgs[q + 1], TOC_KEYWORD)}
    IN IF hits = {} THEN -1
       ELSE CHOOSE q \in hits : \A r \in hits : q <= r

\* text.split('\n')
RECURSIVE SplitLines(_)
SplitLines(t) ==
    LET brk == {i \in 1..Len(t) : t[i] = "\n"}
    IN IF brk = {} THEN <<t>>
       ELSE LET b == CHOOSE i \in brk : \A j \in brk : i <= j
            IN <<SubSeq(t, 1, b - 1)>> \o SplitLines(SubSeq(t, b + 1, Len(t)))

\* the entries parsed from the lines ls, in order
RECURSIVE ParseLines(_)
ParseLines(ls) ==
    IF ls = <<>> THEN <<>>
    ELSE parse_toc_line(Head(ls)) \o ParseLines(Tail(ls))

\* the loop of extract_toc from page i up to, not including, end_page
RECURSIVE ExtractTocFrom(_, _, _)
ExtractTocFrom(pgs, i, end_page) ==
    IF i >= end_page THEN <<>>
    ELSE (IF pgs[i + 1] = <<>> THEN <<>> ELSE ParseLines(SplitLines(pgs[i + 1])))
            \o ExtractTocFrom(pgs, i + 1, end_page)

\* the loop runs to the last page of the document
ExtractTocWholeDocument(pgs, toc_page_num) ==
    ExtractTocFrom(pgs, toc_page_num, Len(pgs))

extract_toc(pgs, toc_page_num) ==
    ExtractTocFrom(pgs, toc_page_num, Min(toc_page_num + MAX_TOC_PAGES, Len(pgs)))

\* str(e) of ValueError raised when no TOC page is found (the message is
\* Korean for "the table of contents cannot be found")
ErrTocNotFound == "toc_not_found"

\* str(e) of the IndexError of pdf.pages[p]
ErrIndex == "list index out of range"

Raised(msg) == [raised |-> TRUE, error |-> msg, results |-> <<>>]

Returned(rs) == [raised |-> FALSE, error |-> "", results |-> rs]

\* steps 3 and 4 of process_pdf on the sections secs of build_page_ranges
ProcessSections(pgs, secs) ==
    IF ExtractRaises(pgs, secs) THEN Raised(ErrIndex)
    ELSE Returned(extract_section_text(pgs, secs))

\* process_pdf after find_toc_page returned toc_page_num
ProcessFrom(pgs, toc_page_num) ==
    IF toc_page_num = -1 THEN Raised(ErrTocNotFound)
    ELSE ProcessSections(pgs,
            build_page_ranges(extract_toc(pgs, toc_page_num), Len(pgs)))

\* process_pdf: the exception it raises or the list it returns
process_pdf(pgs) == ProcessFrom(pgs, find_toc_page(pgs))

-----------------------------------------------------------------------------
(* chunker.py: create_rag_chunks, enrich_with_metadata,
   extract_korean_from_filename *)

DigitChar(d) ==
    CASE d = 0 -> "0" [] d = 1 -> "1" [] d = 2 -> "2" [] d = 3 -> "3"
      [] d = 4 -> "4" [] d = 5 -> "5" [] d = 6 -> "6" [] d = 7 -> "7"
      [] d = 8 -> "8" [] d = 9 -> "9"

\* str(i) for i >= 0
RECURSIVE FormatInt(_)
FormatInt(i) ==
    IF i < 10 THEN <<DigitChar(i)>>
    ELSE FormatInt(i \div 10) \o <<DigitChar(i % 10)>>

\* the windows are numbered from 1
RagChunkOneBased(sec, i, chunk) ==
    [id |-> sec.section_id \o <<"_">> \o FormatInt(i + 1),
     section_id |-> sec.section_id,
     section_title |-> sec.section_title,
     text |-> chunk,
     metadata |-> [page_start |-> sec.start_page + 1,
                   page_end |-> sec.end_page + 1]]

\* the id is the section id alone, without the number of the window
RagChunkIdWithoutWindow(sec, i, chunk) ==
    [id |-> sec.section_id,
     section_id |-> sec.section_id,
     section_title |-> sec.section_title,
     text |-> chunk,
     metadata |-> [page_start |-> sec.start_page + 1,
                   page_end |-> sec.end_page + 1]]

\* the chunk of window i (0-based) of section sec
RagChunk(sec, i, chunk) ==
    [id |-> sec.section_id \o <<"_">> \o FormatInt(i),
     section_id |-> sec.section_id,
     section_title |-> sec.section_title,
     text |-> chunk,
     metadata |-> [page_start |-> sec.start_page + 1,
                   page_end |-> sec.end_page + 1]]

\* the chunks of one section
SectionChunks(sec, l, o) ==
    LET cs == chunk_text(sec.text, l, o)
    IN [i \in 1..Len(cs) |-> RagChunk(sec, i - 1, cs[i])]

RECURSIVE create_rag_chunks(_, _, _)
create_rag_chunks(secs, l, o) ==
    IF secs = <<>> THEN <<>>
    ELSE SectionChunks(Head(secs), l, o) \o create_rag_chunks(Tail(secs), l, o)

\* the two header lines and the blank line: "[mun][seo]" is the Korean word
\* for document (U+BB38 U+C11C), "[sek][syeon]" for section (U+C139 U+C158)
EnrichedText(chunk, document_name) ==
    <<"[mun]", "[seo]", ":", " ">> \o document_name \o <<"\n">>
        \o <<"[sek]", "[syeon]", ":", " ">> \o chunk.section_id
        \o <<" ", "-", " ">> \o chunk.section_title \o <<"\n">>
        \o <<"\n">> \o chunk.text

\* the new metadata dict holds document_name alone
EnrichedChunkMetadataReplaced(chunk, document_name) ==
    [id |-> chunk.id,
     section_id |-> chunk.section_id,
     section_title |-> chunk.section_title,
     text |-> EnrichedText(chunk, document_name),
     metadata |-> [document_name |-> document_name]]

EnrichedChunk(chunk, document_name) ==
    [id |-> chunk.id,
     section_id |-> chunk.section_id,
     section_title |-> chunk.section_title,
     text |-> EnrichedText(chunk, document_name),
     metadata |-> [page_start |-> chunk.metadata.page_start,
                   page_end |-> chunk.metadata.page_end,
                   document_name |-> document_name]]

enrich_with_metadata(cs, document_name) ==
    [i \in 1..Len(cs) |-> EnrichedChunk(cs[i], document_name)]

\* the list handed to enrich_with_metadata after the call: the loop reads
\* each chunk and builds new dicts, and assigns to no chunk of the list
ChunksAfterEnrich(cs, document_name) == cs

\* a character of the range U+AC00..U+D7A3
IsHangul(c) == c \in {"[gyu]", "[jeong]", "[mok]", "[cha]", "[mun]", "[seo]"}

\* re.sub(r'[^U+AC00-U+D7A3]', '', filename)
RECURSIVE extract_korean_from_filename(_)
extract_korean_from_filename(f) ==
    IF f = <<>> THEN <<>>
    ELSE (IF IsHangul(f[1]) THEN <<f[1]>> ELSE <<>>)
            \o extract_korean_from_filename(Tail(f))

-----------------------------------------------------------------------------
(* batch_processor.py: BatchPDFProcessor *)

\* ord(c) of the characters of the file names
CodePoint(c) ==
    CASE c = "." -> 46 [] c = "/" -> 47 [] c = "a" -> 97 [] c = "b" -> 98
      [] c = "d" -> 100 [] c = "f" -> 102 [] c = "p" -> 112 [] c = "t" -> 116
      [] c = "x" -> 120 [] c = "[gyu]" -> 44508

\* a < b for two strings
RECURSIVE StrLess(_, _)
StrLess(a, b) ==
    IF b = <<>> THEN FALSE
    ELSE IF a = <<>> THEN TRUE
    ELSE IF a[1] # b[1] THEN CodePoint(a[1]) < CodePoint(b[1])
    ELSE StrLess(Tail(a), Tail(b))

\* sorted(S) for a set S of strings
RECURSIVE Sorted(_)
Sorted(S) ==
    IF S = {} THEN <<>>
    ELSE LET least == CHOOSE x \in S : \A y \in S \ {x} : StrLess(x, y)
         IN <<least>> \o Sorted(S \ {least})

\* self.pdf_dir
PdfDirPath == <<"d">>

\* os.path.join(self.pdf_dir, name)
JoinPath(name) == PdfDirPath \o <<"/">> \o name

\* os.path.basename(path)
Basename(path) ==
    LET sl == {i \in 1..Len(path) : path[i] = "/"}
    IN IF sl = {} THEN path
       ELSE SubSeq(path, (CHOOSE i \in sl : \A j \in sl : j <= i) + 1, Len(path))

\* glob.glob(os.path.join(self.pdf_dir, "*.pdf")): the paths of the files of
\* the directory whose name ends in .pdf
GlobPdf(dir) ==
    {JoinPath(name) : name \in
        {f \in DOMAIN dir :
            Len(f) >= 4 /\ SubSeq(f, Len(f) - 3, Len(f)) = <<".", "p", "d", "f">>}}

get_pdf_files(dir) == Sorted(GlobPdf(dir))

\* the dict returned when process_pdf and the chunker return
SuccessRecord(filename, document_name, num_sections, enriched_chunks) ==
    [status |-> "success",
     filename |-> filename,
     document_name |-> document_name,
     chunks |-> enriched_chunks,
     num_sections |-> num_sections,
     num_chunks |-> Len(enriched_chunks)]

\* the try block and the except clause, for the outcome got of process_pdf
SingleResult(filename, got, l, o) ==
    IF got.raised
    THEN [status |-> "failed", filename |-> filename, error |-> got.error]
    ELSE SuccessRecord(filename,
                       extract_korean_from_filename(filename),
                       Len(got.results),
                       enrich_with_metadata(create_rag_chunks(got.results, l, o),
                                            extract_korean_from_filename(filename)))

\* process_single_pdf: the dict returned for the file at pdf_path
process_single_pdf(dir, pdf_path, l, o) ==
    SingleResult(Basename(pdf_path), process_pdf(dir[Basename(pdf_path)]), l, o)

\* the number of success records in a list of results
RECURSIVE CountSuccess(_)
CountSuccess(rs) ==
    IF rs = <<>> THEN 0
    ELSE (IF Head(rs).status = "success" THEN 1 ELSE 0) + CountSuccess(Tail(rs))

\* the loop stops at the first failed document
PositionAfterStopOnFailure(pos, result, n) ==
    IF result.status = "failed" THEN n + 1 ELSE pos + 1

\* for pdf_path in pdf_files: the position after the iteration that got result
PositionAfter(pos, result, n) == pos + 1

-----------------------------------------------------------------------------
(* Specification of the batch processor: process_all of a BatchPDFProcessor
   with 0 <= chunk_overlap < chunk_size runs on a directory that holds any of
   the files of FileNames, each with the pages of one of BatchDocs. *)

\* no page holds the TOC keyword
DocNoToc == <<<<"a", "b">>>>

\* a TOC page listing sections "1" and "2", and their two pages
DocTwoSections ==
    <<<<"[mok]", " ", "[cha]", "\n", "1", " ", "T", " ", "2", "\n", "2", " ", "U", " ", "3">>,
      <<"1", " ", "T", "\n", "a", "b">>,
      <<"2", " ", "U", "\n", "c", "d">>>>

\* a TOC page without entries
DocEmptyToc == <<<<"[mok]", " ", "[cha]">>>>

\* a TOC page whose entries are printed beyond the last page
DocPagesBeyondEnd == <<<<"[mok]", " ", "[cha]", "\n", "1", " ", "T", " ", "7", "\n", "2", " ", "U", " ", "9">>>>

\* a TOC page listing two sections under the id "1", and their two pages
DocSameIdSections ==
    <<<<"[mok]", " ", "[cha]", "\n", "1", " ", "T", " ", "2", "\n", "1", " ", "V", " ", "3">>,
      <<"1", " ", "T", "\n", "a", "b">>,
      <<"1", " ", "V", "\n", "c">>>>

BatchDocs ==
    {DocNoToc, DocTwoSections, DocEmptyToc, DocPagesBeyondEnd,
     DocSameIdSections}

\* a.pdf, b.pdf, U+ADDC.pdf and x.txt
FileNames ==
    {<<"a", ".", "p", "d", "f">>, <<"b", ".", "p", "d", "f">>,
     <<"[gyu]", ".", "p", "d", "f">>, <<"x", ".", "t", "x", "t">>}

\* the file of FileNames that is no PDF file
OtherFile == <<"x", ".", "t", "x", "t">>

BatchInit ==
    /\ pc = "batch_ready"
    /\ NonBatchIdle
    /\ max_length \in 1..MaxBatchChunkLen
    /\ overlap \in 0..(max_length - 1)
    /\ \E S \in SUBSET FileNames :
          /\ pdf_dir \in [S -> BatchDocs]
          /\ \A f \in S : f = OtherFile => pdf_dir[f] = DocNoToc
    /\ pdf_files = <<>>
    /\ file_pos = 0
    /\ batch_results = <<>>
    /\ all_chunks = <<>>
    /\ batch_result = <<>>

\* a record for the empty directory that carries zero counts and an empty
\* chunk list
NoFilesResultWithCounts ==
    [status |-> "failed", message |-> "No PDF files found",
     total_files |-> 0, success_count |-> 0, failed_count |-> 0,
     total_chunks |-> 0, results |-> <<>>, chunks |-> <<>>]

\* what process_all returns when the directory has no PDF file
NoFilesResult == [status |-> "failed", message |-> "No PDF files found"]

\* process_all: no PDF file in the directory
ProcessAllNoFiles ==
    /\ pc = "batch_ready"
    /\ get_pdf_files(pdf_dir) = <<>>
    /\ pdf_files' = get_pdf_files(pdf_dir)
    /\ batch_result' = NoFilesResult
    /\ pc' = "batch_done"
    /\ UNCHANGED <<pdf_dir, file_pos, batch_results, all_chunks>>
    /\ UNCHANGED <<max_length, overlap, nonBatchVars>>

\* process_all up to the for loop
ProcessAllBegin ==
    /\ pc = "batch_ready"
    /\ get_pdf_files(pdf_dir) # <<>>
    /\ pdf_files' = get_pdf_files(pdf_dir)
    /\ all_chunks' = <<>>
    /\ batch_results' = <<>>
    /\ file_pos' = 1
    /\ pc' = "batch_loop"
    /\ UNCHANGED <<pdf_dir, batch_result>>
    /\ UNCHANGED <<max_length, overlap, nonBatchVars>>

\* the body of the for loop of process_all for the result of one document
AppendResult(result) ==
    /\ batch_results' = Append(batch_results, result)
    /\ all_chunks' = IF result.status = "success"
                     THEN all_chunks \o result.chunks ELSE all_chunks
    /\ file_pos' = PositionAfter(file_pos, result, Len(pdf_files))

\* one iteration of the for loop
ProcessNextPdf ==
    /\ pc = "batch_loop"
    /\ file_pos <= Len(pdf_files)
    /\ AppendResult(process_single_pdf(pdf_dir, pdf_files[file_pos], max_length, overlap))
    /\ UNCHANGED <<pc, pdf_dir, pdf_files, batch_result>>
    /\ UNCHANGED <<max_length, overlap, nonBatchVars>>

\* process_all after the for loop
ProcessAllReturn ==
    /\ pc = "batch_loop"
    /\ file_pos > Len(pdf_files)
    /\ LET success_count == CountSuccess(batch_results)
           failed_count == Len(batch_results) - success_count
       IN batch_result' = [status |-> "success",
                           total_files |-> Len(pdf_files),
                           success_count |-> success_count,
                           failed_count |-> failed_count,
                           total_chunks |-> Len(all_chunks),
                           chunks |-> all_chunks,
                           results |-> batch_results]
    /\ pc' = "batch_done"
    /\ UNCHANGED <<pdf_dir, pdf_files, file_pos, batch_results, all_chunks>>
    /\ UNCHANGED <<max_length, overlap, nonBatchVars>>

BatchNext ==
    \/ ProcessAllNoFiles
    \/ ProcessAllBegin
    \/ ProcessNextPdf
    \/ ProcessAllReturn

SpecBatch == BatchInit /\ [][BatchNext]_vars

-----------------------------------------------------------------------------
(* Claims of the batch processor *)

\* process_all has returned from a run over a non-empty file list
BatchReturned == pc = "batch_done" /\ pdf_files # <<>>

\* the file list is the glob of the directory in strictly ascending order
FilesSorted ==
    /\ {pdf_files[i] : i \in 1..Len(pdf_files)} = GlobPdf(pdf_dir)
    /\ \A i \in 1..(Len(pdf_files) - 1) : StrLess(pdf_files[i], pdf_files[i + 1])

\* record r is the status record of the file at path, whose outcome under
\* process_pdf alone is got
RecordOf(r, path, got) ==
    /\ r.filename = Basename(path)
    /\ r.status = (IF got.raised THEN "failed" ELSE "success")
    /\ got.raised => r.error = got.error
    /\ ~got.raised => r.num_sections = Len(got.results)

\* the chunk lists of the success records of rs, concatenated in order
RECURSIVE SuccessfulChunks(_)
SuccessfulChunks(rs) ==
    IF rs = <<>> THEN <<>>
    ELSE (IF Head(rs).status = "success" THEN Head(rs).chunks ELSE <<>>)
            \o SuccessfulChunks(Tail(rs))

\* the result br of process_all accounts for every file of the list
BatchAccountsForAll(br) ==
    /\ br.status = "success"
    /\ br.total_files = Len(pdf_files)
    /\ Len(br.results) = Len(pdf_files)
    /\ \A i \in 1..Len(pdf_files) :
          RecordOf(br.results[i], pdf_files[i],
                   process_pdf(pdf_dir[Basename(pdf_files[i])]))
    /\ br.success_count + br.failed_count = br.total_files
    /\ br.failed_count = Cardinality({i \in 1..Len(br.results) :
                                        br.results[i].status = "failed"})
    /\ br.chunks = SuccessfulChunks(br.results)
    /\ br.total_chunks = Len(br.chunks)

\* C10: when process_all returns from a run over a non-empty file list, the
\* file list is the sorted glob, the result holds one status record per file in
\* that order, each record is failed exactly when process_pdf raises on that
\* file alone and then carries the file name and the error message,
\* success_count + failed_count = total_files, and the batch chunk list is the
\* concatenation in file order of the chunk lists of the successful documents
C10_FailureDoesNotAbortSiblings ==
    BatchReturned => FilesSorted /\ BatchAccountsForAll(batch_result)

\* a document without TOC page failed and a later document contributed chunks
C10_Witness ==
    /\ BatchReturned
    /\ \E i, j \in 1..Len(batch_results) :
          /\ i < j
          /\ batch_results[i].status = "failed"
          /\ batch_results[i].error = ErrTocNotFound
          /\ batch_results[j].status = "success"
          /\ batch_results[j].chunks # <<>>
          /\ batch_result.chunks = batch_results[j].chunks

-----------------------------------------------------------------------------
(* Specification of process_pdf, statement by statement, on every document of
   at most MaxPdfPages pages whose cropped page texts are among PdfPageTexts.
   A with block is left by its own step, on the normal and on the exceptional
   path. *)

\* a page without text
PageNoText == <<>>

\* the keyword line alone
PageKeywordOnly == TOC_KEYWORD

\* a TOC page: the keyword, entries "1 T 2" and "2 U 3", and a line in between
\* that is no TOC line
PageToc ==
    TOC_KEYWORD \o <<"\n", "1", " ", "T", " ", "2", "\n", "x", "\n",
                     "2", " ", "U", " ", "3">>

\* two lines with the same section id; the first one is also the header of
\* section 1
PageSameId == <<"1", " ", "T", " ", "1", "\n", "1", " ", "T", " ", "2">>

\* the header of section 1 and a body line
PageBodyOne == <<"1", " ", "T", "\n", "a", "b">>

\* the header of section 2 and a body line
PageBodyTwo == <<"2", " ", "U", "\n", "c", "d">>

\* an entry printed on page 9
PageFarEntry == <<"3", " ", "V", " ", "9">>

\* an entry printed on page 0
PageZeroEntry == <<"1", " ", "T", " ", "0">>

PdfPageTexts ==
    {PageNoText, PageKeywordOnly, PageToc, PageSameId, PageBodyOne,
     PageBodyTwo, PageFarEntry, PageZeroEntry}

\* the document is closed at the end of the block only, not when an exception
\* leaves it
HandlesAfterWithNoUnwind(open, h, raised) ==
    IF raised THEN open ELSE open \ {h}

\* the open documents after the with block that opened h is left: __exit__
\* closes it, whether the block ended or an exception left it
HandlesAfterWith(open, h, raised) == open \ {h}

PdfInit ==
    /\ pc = "pdf_ready"
    /\ NonPdfIdle
    /\ \E n \in 1..MaxPdfPages : pages \in [1..n -> PdfPageTexts]
    /\ total_pages = 0
    /\ toc = <<>>
    /\ sections = <<>>
    /\ results = <<>>
    /\ PdfIdle

\* with pdfplumber.open(pdf_path) as pdf: total_pages = len(pdf.pages)
PdfOpenToc ==
    /\ pc = "pdf_ready"
    /\ handles' = handles \cup {"toc_handle"}
    /\ total_pages' = Len(pages)
    /\ pc' = "pdf_find_toc"
    /\ UNCHANGED <<pages, toc, sections, results, pdf_toc_page, pdf_error>>
    /\ UNCHANGED nonPdfVars

\* toc_page_num = self.find_toc_page(pdf); raise ValueError if it is None
PdfFindTocPage ==
    /\ pc = "pdf_find_toc"
    /\ pdf_toc_page' = find_toc_page(pages)
    /\ IF find_toc_page(pages) = -1
       THEN pdf_error' = ErrTocNotFound /\ pc' = "pdf_toc_raised"
       ELSE pdf_error' = pdf_error /\ pc' = "pdf_extract_toc"
    /\ UNCHANGED <<pages, total_pages, toc, sections, results, handles>>
    /\ UNCHANGED nonPdfVars

\* toc = self.extract_toc(pdf, toc_page_num)
PdfExtractToc ==
    /\ pc = "pdf_extract_toc"
    /\ toc' = extract_toc(pages, pdf_toc_page)
    /\ pc' = "pdf_build_ranges"
    /\ UNCHANGED <<pages, total_pages, sections, results, pdfVars>>
    /\ UNCHANGED nonPdfVars

\* sections = self.build_page_ranges(toc, total_pages)
PdfBuildPageRanges ==
    /\ pc = "pdf_build_ranges"
    /\ sections' = build_page_ranges(toc, total_pages)
    /\ pc' = "pdf_toc_done"
    /\ UNCHANGED <<pages, total_pages, toc, results, pdfVars>>
    /\ UNCHANGED nonPdfVars

\* the with block of process_pdf is left, by its end or by the ValueError
PdfExitTocWith ==
    /\ pc \in {"pdf_toc_done", "pdf_toc_raised"}
    /\ handles' = HandlesAfterWith(handles, "toc_handle", pc = "pdf_toc_raised")
    /\ pc' = IF pc = "pdf_toc_raised" THEN "pdf_raised" ELSE "pdf_open_text"
    /\ UNCHANGED <<pages, total_pages, toc, sections, results, pdf_toc_page, pdf_error>>
    /\ UNCHANGED nonPdfVars

\* extract_section_text: with pdfplumber.open(pdf_path) as pdf
PdfOpenText ==
    /\ pc = "pdf_open_text"
    /\ handles' = handles \cup {"text_handle"}
    /\ pc' = "pdf_extract_text"
    /\ UNCHANGED <<pages, total_pages, toc, sections, results, pdf_toc_page, pdf_error>>
    /\ UNCHANGED nonPdfVars

\* the for loop of extract_section_text: pdf.pages[p] raises IndexError or
\* every section gets its record
PdfExtractSectionText ==
    /\ pc = "pdf_extract_text"
    /\ IF ExtractRaises(pages, sections)
       THEN results' = results /\ pdf_error' = ErrIndex /\ pc' = "pdf_text_raised"
       ELSE /\ results' = extract_section_text(pages, sections)
            /\ pdf_error' = pdf_error
            /\ pc' = "pdf_text_done"
    /\ UNCHANGED <<pages, total_pages, toc, sections, handles, pdf_toc_page>>
    /\ UNCHANGED nonPdfVars

\* the with block of extract_section_text is left, by its end or by the
\* IndexError; process_pdf returns results or the exception reaches its caller
PdfExitTextWith ==
    /\ pc \in {"pdf_text_done", "pdf_text_raised"}
    /\ handles' = HandlesAfterWith(handles, "text_handle", pc = "pdf_text_raised")
    /\ pc' = IF pc = "pdf_text_raised" THEN "pdf_raised" ELSE "pdf_returned"
    /\ UNCHANGED <<pages, total_pages, toc, sections, results, pdf_toc_page, pdf_error>>
    /\ UNCHANGED nonPdfVars

PdfNext ==
    \/ PdfOpenToc
    \/ PdfFindTocPage
    \/ PdfExtractToc
    \/ PdfBuildPageRanges
    \/ PdfExitTocWith
    \/ PdfOpenText
    \/ PdfExtractSectionText
    \/ PdfExitTextWith

SpecPdf == PdfInit /\ [][PdfNext]_vars

\* the statements of process_pdf give what process_pdf gives as a whole
PdfStepsAgree ==
    /\ pc = "pdf_raised" =>
          process_pdf(pages).raised /\ process_pdf(pages).error = pdf_error
    /\ pc = "pdf_returned" => process_pdf(pages) = Returned(results)

(* Claims of process_pdf *)

\* process_pdf has found a TOC page and has ended
PdfEndedWithToc == pc \in {"pdf_raised", "pdf_returned"} /\ pdf_toc_page # -1

\* C11: for a document in which a TOC page is found, process_pdf never raises
\* to its caller, whatever the TOC lines and the page numbers printed in them
C11_NeverRaisesWithToc == PdfEndedWithToc => pc = "pdf_returned"

-----------------------------------------------------------------------------
(* Specification of process_and_save: process_all, then the check of
   total_chunks, the chunk manifest and the vector store. io_log records every
   write and index build in the order it happens. *)

\* str(e) of the ValueError of process_and_save (the message is Korean for
\* "there are no processed chunks")
ErrNoChunks == "no_chunks_processed"

\* str(e) of the KeyError of batch_result['total_chunks']
ErrKeyTotalChunks == "'total_chunks'"

\* the check of total_chunks never finds zero
NoChunksUnchecked(br) == FALSE

\* batch_result['total_chunks'] == 0
NoChunksProduced(br) == br.total_chunks = 0

\* batch_result = self.process_all(); if batch_result['total_chunks'] == 0: raise
CheckTotalChunks ==
    /\ pc = "batch_done"
    /\ IF "total_chunks" \notin DOMAIN batch_result
       THEN save_error' = ErrKeyTotalChunks /\ pc' = "save_raised"
       ELSE IF NoChunksProduced(batch_result)
            THEN save_error' = ErrNoChunks /\ pc' = "save_raised"
            ELSE save_error' = save_error /\ pc' = "save_manifest"
    /\ UNCHANGED <<io_log, batchVars>>
    /\ UNCHANGED nonSaveVars

\* save_chunks_metadata(batch_result['chunks'], chunks_file)
save_chunks_metadata ==
    /\ pc = "save_manifest"
    /\ io_log' = Append(io_log, "chunks.json")
    /\ pc' = "save_create"
    /\ UNCHANGED <<save_error, batchVars>>
    /\ UNCHANGED nonSaveVars

\* vectorstore_manager.create_vectorstore(batch_result['chunks'])
create_vectorstore ==
    /\ pc = "save_create"
    /\ io_log' = Append(io_log, "create_vectorstore")
    /\ pc' = "save_store"
    /\ UNCHANGED <<save_error, batchVars>>
    /\ UNCHANGED nonSaveVars

\* vectorstore_manager.save_vectorstore(vectorstore_dir); return vectorstore_dir
save_vectorstore ==
    /\ pc = "save_store"
    /\ io_log' = Append(io_log, "save_vectorstore")
    /\ pc' = "save_returned"
    /\ UNCHANGED <<save_error, batchVars>>
    /\ UNCHANGED nonSaveVars

SaveNext ==
    \/ BatchNext
    \/ CheckTotalChunks
    \/ save_chunks_metadata
    \/ create_vectorstore
    \/ save_vectorstore

SpecSave == BatchInit /\ [][SaveNext]_vars

(* Claims of process_and_save *)

\* the batch whose result is batch_result produced no chunk
BatchYieldedNoChunks == all_chunks = <<>>

\* the position of event e in io_log, 0 if it did not happen
LogPosition(e) ==
    IF \E i \in 1..Len(io_log) : io_log[i] = e
    THEN CHOOSE i \in 1..Len(io_log) : io_log[i] = e
    ELSE 0

\* C12: something is written or built only after a batch that produced at
\* least one chunk; a batch that yields no chunk ends in an error with nothing
\* written; and the manifest is written before the vector store is created,
\* which is created before it is saved
C12_SaveOnlyAfterChunks ==
    /\ io_log # <<>> => pc \notin {"batch_ready", "batch_loop"} /\ ~BatchYieldedNoChunks
    /\ (pc \in {"save_raised", "save_returned"} /\ BatchYieldedNoChunks) =>
          pc = "save_raised" /\ save_error # "" /\ io_log = <<>>
    /\ pc = "save_raised" => BatchYieldedNoChunks
    /\ LogPosition("create_vectorstore") > 0 =>
          LogPosition("chunks.json") \in 1..(LogPosition("create_vectorstore") - 1)
    /\ LogPosition("save_vectorstore") > 0 =>
          LogPosition("create_vectorstore") \in 1..(LogPosition("save_vectorstore") - 1)
    /\ pc = "save_returned" =>
          io_log = <<"chunks.json", "create_vectorstore", "save_vectorstore">>

\* a batch in which one document failed and another gave chunks was saved
C12_Witness ==
    /\ pc = "save_returned"
    /\ io_log = <<"chunks.json", "create_vectorstore", "save_vectorstore">>
    /\ batch_result.total_chunks > 0
    /\ batch_result.failed_count > 0

-----------------------------------------------------------------------------
(* chunker.py: check_duplicates *)

\* title_to_ids after the first loop over cs, starting from acc: a dict from
\* title to the list of the section ids seen under it
RECURSIVE TitleToIdsFrom(_, _)
TitleToIdsFrom(cs, acc) ==
    IF cs = <<>> THEN acc
    ELSE TitleToIdsFrom(Tail(cs),
            IF Head(cs).section_title \in DOMAIN acc
            THEN [acc EXCEPT ![Head(cs).section_title] =
                                    Append(@, Head(cs).section_id)]
            ELSE acc @@ (Head(cs).section_title :> <<Head(cs).section_id>>))

\* set(ids)
UniqueIds(ids) == {ids[i] : i \in 1..Len(ids)}

\* a title is reported when it was seen more than once
IsDuplicatedByCount(ids) == Len(ids) > 1

\* len(unique_ids) > 1
IsDuplicated(ids) == Cardinality(UniqueIds(ids)) > 1

\* the dict `duplicates` built from title_to_ids; the list of unique ids of a
\* title, whose order set() leaves open, is the set of its elements
Duplicates(title_to_ids) ==
    [t \in {u \in DOMAIN title_to_ids : IsDuplicated(title_to_ids[u])} |->
        UniqueIds(title_to_ids[t])]

\* the dict returned for title_to_ids and its duplicates
DupReport(cs, title_to_ids, duplicates) ==
    [duplicates |-> duplicates,
     has_duplicates |-> DOMAIN duplicates # {},
     total_chunks |-> Len(cs),
     unique_titles |-> Cardinality(DOMAIN title_to_ids)]

\* the dict with the empty domain
EmptyDict == [t \in {} |-> <<>>]

DupReportOf(cs, title_to_ids) ==
    DupReport(cs, title_to_ids, Duplicates(title_to_ids))

check_duplicates(cs) == DupReportOf(cs, TitleToIdsFrom(cs, EmptyDict))

(* Specification of check_duplicates on every list of at most MaxDupChunks
   chunks with titles of DupTitles and section ids of DupIds. *)

DupTitles == {<<"T">>, <<"U">>}

DupIds == {<<"1">>, <<"2">>, <<"1", ".", "1">>}

\* a chunk with the given title and section id
DupChunk(title, sid) ==
    [id |-> sid \o <<"_", "0">>,
     section_id |-> sid,
     section_title |-> title,
     text |-> <<"a">>,
     metadata |-> [page_start |-> 1, page_end |-> 1]]

DupChunkSet == {DupChunk(t, sid) : t \in DupTitles, sid \in DupIds}

DupInit ==
    /\ pc = "dup_ready"
    /\ ChunkIdle
    /\ NonRecordIdle
    /\ EnrichIdle
    /\ RagIdle
    /\ dup_chunks \in SeqsUpTo(DupChunkSet, MaxDupChunks)
    /\ dup_result = <<>>

CallCheckDuplicates ==
    /\ pc = "dup_ready"
    /\ dup_result' = check_duplicates(dup_chunks)
    /\ pc' = "dup_checked"
    /\ UNCHANGED <<dup_chunks, enrichVars, ragVars>>
    /\ UNCHANGED <<max_length, overlap, nonRecordVars>>

DupNext == CallCheckDuplicates

SpecDup == DupInit /\ [][DupNext]_vars

(* Claims of check_duplicates *)

\* the section ids of the chunks of dup_chunks that carry title t
IdsUnderTitle(t) ==
    {dup_chunks[i].section_id :
        i \in {j \in 1..Len(dup_chunks) : dup_chunks[j].section_title = t}}

TitlesOfChunks == {dup_chunks[i].section_title : i \in 1..Len(dup_chunks)}

\* C13: a title is reported iff its chunks carry at least two distinct section
\* ids, the set reported for it is the set of those ids, has_duplicates is true
\* iff a title is reported, total_chunks is the number of chunks and
\* unique_titles the number of distinct titles
C13_DuplicatesAreDistinctIds ==
    pc = "dup_checked" =>
        /\ DOMAIN dup_result.duplicates =
              {t \in TitlesOfChunks : Cardinality(IdsUnderTitle(t)) >= 2}
        /\ \A t \in DOMAIN dup_result.duplicates :
              dup_result.duplicates[t] = IdsUnderTitle(t)
        /\ dup_result.has_duplicates <=> DOMAIN dup_result.duplicates # {}
        /\ dup_result.total_chunks = Len(dup_chunks)
        /\ dup_result.unique_titles = Cardinality(TitlesOfChunks)

\* one title repeated under a single id and not reported, another reported
\* with its two ids
C13_Witness ==
    /\ pc = "dup_checked"
    /\ \E t \in TitlesOfChunks :
          /\ Cardinality({j \in 1..Len(dup_chunks) : dup_chunks[j].section_title = t}) >= 2
          /\ Cardinality(IdsUnderTitle(t)) = 1
          /\ t \notin DOMAIN dup_result.duplicates
    /\ \E t \in DOMAIN dup_result.duplicates :
          Cardinality(dup_result.duplicates[t]) = 2

-----------------------------------------------------------------------------
(* Specification of enrich_with_metadata on every list of at most
   MaxEnrichChunks chunks of the shape create_rag_chunks builds, and a document
   name that is empty (a file name without Hangul) or not. *)

EnrichIds == {<<"1">>, <<"1", ".", "2">>}

EnrichTexts == {<<>>, <<"a", "\n", "b">>}

EnrichPages == {1, 3}

\* the chunks create_rag_chunks builds from sections titled "T"
EnrichChunkSet ==
    {RagChunk([section_id |-> sid, section_title |-> <<"T">>,
               start_page |-> p - 1, end_page |-> p], 0, t) :
        sid \in EnrichIds, t \in EnrichTexts, p \in EnrichPages}

EnrichNames == {<<>>, <<"[gyu]", "[jeong]">>}

EnrichInit ==
    /\ pc = "enrich_ready"
    /\ ChunkIdle
    /\ NonRecordIdle
    /\ DupIdle
    /\ RagIdle
    /\ enrich_in \in SeqsUpTo(EnrichChunkSet, MaxEnrichChunks)
    /\ enrich_name \in EnrichNames
    /\ enrich_after = enrich_in
    /\ enriched = <<>>

CallEnrichWithMetadata ==
    /\ pc = "enrich_ready"
    /\ enriched' = enrich_with_metadata(enrich_in, enrich_name)
    /\ enrich_after' = ChunksAfterEnrich(enrich_in, enrich_name)
    /\ pc' = "enrich_done"
    /\ UNCHANGED <<enrich_in, enrich_name, dupVars, ragVars>>
    /\ UNCHANGED <<max_length, overlap, nonRecordVars>>

EnrichNext == CallEnrichWithMetadata

SpecEnrich == EnrichInit /\ [][EnrichNext]_vars

(* Claims of enrich_with_metadata *)

\* the two header lines and the blank line above the text of chunk c
HeaderAbove(c) ==
    <<"[mun]", "[seo]", ":", " ">> \o enrich_name \o <<"\n">>
        \o <<"[sek]", "[syeon]", ":", " ">> \o c.section_id \o <<" ", "-", " ">>
        \o c.section_title \o <<"\n">>
        \o <<"\n">>

\* record e is chunk c enriched
EnrichedFrom(e, c) ==
    /\ e.id = c.id
    /\ e.section_id = c.section_id
    /\ e.section_title = c.section_title
    /\ DOMAIN e = DOMAIN c
    /\ DOMAIN e.metadata = DOMAIN c.metadata \cup {"document_name"}
    /\ \A k \in DOMAIN c.metadata : e.metadata[k] = c.metadata[k]
    /\ e.metadata.document_name = enrich_name
    /\ Len(e.text) = Len(HeaderAbove(c)) + Len(c.text)
    /\ Prefix(e.text, Len(HeaderAbove(c))) = HeaderAbove(c)
    /\ Suffix(e.text, Len(c.text)) = c.text

\* C14: enrich_with_metadata returns, in the same order, one record per input
\* chunk that keeps id, section_id, section_title and every metadata key and
\* value, adds document_name, and has the two header lines, a blank line and
\* the unchanged chunk text as its text; the input chunks are left as they were
C14_EnrichKeepsAndAdds ==
    pc = "enrich_done" =>
        /\ Len(enriched) = Len(enrich_in)
        /\ \A i \in 1..Len(enrich_in) : EnrichedFrom(enriched[i], enrich_in[i])
        /\ enrich_after = enrich_in
        /\ \A i \in 1..Len(enrich_after) :
              "document_name" \notin DOMAIN enrich_after[i].metadata

\* two different chunks with text were enriched under a document name
C14_Witness ==
    /\ pc = "enrich_done"
    /\ Len(enriched) = 2
    /\ enrich_in[1] # enrich_in[2]
    /\ enrich_in[1].text # <<>>
    /\ enrich_name # <<>>
    /\ enriched[1].metadata.page_end = enrich_in[1].metadata.page_end

-----------------------------------------------------------------------------
(* Claims about the title and the section id of parse_toc_line *)

\* s without its whitespace characters
RECURSIVE RemoveWhitespace(_)
RemoveWhitespace(s) ==
    IF s = <<>> THEN <<>>
    ELSE (IF IsSpace(s[1]) THEN <<>> ELSE <<s[1]>>) \o RemoveWhitespace(Tail(s))

\* the characters of s outside whitespace and dot leaders
TitleSkeleton(s) == RemoveWhitespace(DotsSub(s))

\* what follows the numbering token matched in the stripped line, without the
\* trailing page number
AfterTokenNoPage(l) ==
    PageSub(Strip(SliceFrom(Strip(l), SectionSearch(Strip(l)).end)))

NoDotRun(t) == \A i \in 1..(Len(t) - 1) : ~(t[i] = "." /\ t[i + 1] = ".")

NoOuterWhitespace(t) == t = <<>> \/ (~IsSpace(t[1]) /\ ~IsSpace(t[Len(t)]))

\* every whitespace character of t is a single blank between two other
\* characters
WhitespaceCollapsed(t) ==
    \A i \in 1..Len(t) :
        IsSpace(t[i]) => t[i] = " " /\ (i < Len(t) => ~IsSpace(t[i + 1]))

\* C15: the title of a returned entry is the text after the numbering token
\* without the trailing page number, holds no run of two or more dots, has no
\* leading or trailing whitespace, and every run of whitespace inside it is
\* collapsed to a single blank
C15_TitleNormalized ==
    (pc = "toc_parsed" /\ parsed # <<>>) =>
        /\ TitleSkeleton(parsed[1].section_title) = TitleSkeleton(AfterTokenNoPage(line))
        /\ NoDotRun(parsed[1].section_title)
        /\ NoOuterWhitespace(parsed[1].section_title)
        /\ WhitespaceCollapsed(parsed[1].section_title)

\* sid is one or more groups of digits joined by single dots
RECURSIVE IsDotJoinedDigits(_)
IsDotJoinedDigits(sid) ==
    /\ sid # <<>>
    /\ IsDigit(sid[1])
    /\ LET e == DigitsEnd(sid, 0)
       IN \/ e = Len(sid)
          \/ /\ sid[e + 1] = "."
             /\ IsDotJoinedDigits(SubSeq(sid, e + 2, Len(sid)))

\* C16: the section id of every returned entry is one or more groups of digits
\* separated by single dots, without whitespace of any kind and without a
\* leading or trailing dot
C16_SectionIdCanonical ==
    (pc = "toc_parsed" /\ parsed # <<>>) => IsDotJoinedDigits(parsed[1].section_id)

-----------------------------------------------------------------------------
(* Claims of extract_toc, on the state in which process_pdf has just called it *)

\* the page indexes (0-based) extract_toc is to read
TocWindow ==
    {p \in 0..(Len(pages) - 1) :
        pdf_toc_page <= p /\ p < Min(pdf_toc_page + MAX_TOC_PAGES, Len(pages))}

\* line l has a trailing integer and a numbering-grammar match at its start
IsTocLine(l) ==
    /\ PageSearch(Strip(l)) # -1
    /\ SectionSearch(Strip(l)).ok

\* <<p, k>>: line k (1-based) of page p of the window is a TOC line
TocLinePositions ==
    UNION {{<<p, k>> : k \in {j \in 1..Len(SplitLines(pages[p + 1])) :
                                 IsTocLine(SplitLines(pages[p + 1])[j])}} :
             p \in {q \in TocWindow : pages[q + 1] # <<>>}}

\* page-then-line order
Before(a, b) == a[1] < b[1] \/ (a[1] = b[1] /\ a[2] < b[2])

\* the 1-based rank of position pk among the TOC lines
RankOf(pk) == 1 + Cardinality({q \in TocLinePositions : Before(q, pk)})

\* the entry read from the line at position pk
EntryAt(pk) == parse_toc_line(SplitLines(pages[pk[1] + 1])[pk[2]])[1]

\* C17: extract_toc reads the pages toc_page_num .. min(toc_page_num +
\* MAX_TOC_PAGES, page count) - 1, skips pages without text, and returns in
\* page-then-line order one entry for each line with a trailing integer and a
\* numbering match at its start, keeping entries with a section id seen before
C17_TocIsWindowLinesInOrder ==
    pc = "pdf_build_ranges" =>
        /\ Len(toc) = Cardinality(TocLinePositions)
        /\ \A pk \in TocLinePositions : toc[RankOf(pk)] = EntryAt(pk)

\* a four-page document with the TOC page first: the window holds a page
\* without text, a line that is no TOC line and two entries with the same id,
\* and the page after the window holds a TOC line
C17_Witness ==
    /\ pc = "pdf_build_ranges"
    /\ pdf_toc_page = 0
    /\ Len(pages) = 4
    /\ \E p \in TocWindow : pages[p + 1] = <<>>
    /\ pages[1] = PageToc
    /\ IsTocLine(pages[4])
    /\ \E i, j \in 1..Len(toc) : i < j /\ toc[i].section_id = toc[j].section_id
    /\ Len(toc) = 4

-----------------------------------------------------------------------------
(* Claims of chunk_text: the windows *)

\* the distance between the starts of two consecutive windows
WindowStep == max_length - overlap

\* the indexes i (0-based) with i * (L - O) < len(text)
WindowIndexes == {i \in 0..Len(text) : i * WindowStep < Len(text)}

\* text[a:b] for 0 <= a < len(text), as the characters at the offsets a..b-1
\* that exist
OffsetsOfWindow(i) ==
    {k \in 0..(Len(text) - 1) :
        i * WindowStep <= k /\ k < i * WindowStep + max_length}

\* C18: chunk_text returns, in order, exactly the windows
\* text[i*(L-O) : i*(L-O)+L] for the indexes i with i*(L-O) < len(text); every
\* window is non-empty and at most L characters long, and every character
\* position of the text lies in a window
C18_WindowsAreFixedStrides ==
    pc \in {"chunked", "rechunked"} =>
        /\ Len(chunks) = Cardinality(WindowIndexes)
        /\ \A i \in WindowIndexes :
              /\ Len(chunks[i + 1]) = Cardinality(OffsetsOfWindow(i))
              /\ \A k \in OffsetsOfWindow(i) :
                    chunks[i + 1][k - i * WindowStep + 1] = text[k + 1]
              /\ Len(chunks[i + 1]) >= 1
              /\ Len(chunks[i + 1]) <= max_length
        /\ \A k \in 0..(Len(text) - 1) : \E i \in WindowIndexes : k \in OffsetsOfWindow(i)

\* three or more overlapping windows, the last one clipped by the end of the
\* text
C18_Witness ==
    /\ pc = "chunked"
    /\ overlap > 0
    /\ Len(chunks) >= 3
    /\ Len(chunks[1]) = max_length
    /\ Len(chunks[Len(chunks)]) < max_length

-----------------------------------------------------------------------------
(* Specification of create_rag_chunks on every list of at most MaxRagSections
   sections of the shape extract_section_text returns, for every chunker with
   0 <= overlap < max_length <= MaxBatchChunkLen. *)

RagIds == {<<"1">>, <<"2", ".", "1">>}

\* start_page and end_page (0-based) of a section
RagPageRanges == {<<0, 0>>, <<1, 3>>}

\* section texts: empty, one window, several windows
RagTexts == {<<>>, <<"a">>, <<"a", "b", "c">>}

RagSectionSet ==
    {[section_id |-> sid, section_title |-> <<"T">>, page |-> r[1] + 1,
      start_page |-> r[1], end_page |-> r[2], text |-> t] :
        sid \in RagIds, r \in RagPageRanges, t \in RagTexts}

RagInit ==
    /\ pc = "rag_ready"
    /\ NonRecordIdle
    /\ DupIdle
    /\ EnrichIdle
    /\ max_length \in 1..MaxBatchChunkLen
    /\ overlap \in 0..(max_length - 1)
    /\ rag_sections \in SeqsUpTo(RagSectionSet, MaxRagSections)
    /\ rag_chunks = <<>>

CallCreateRagChunks ==
    /\ pc = "rag_ready"
    /\ rag_chunks' = create_rag_chunks(rag_sections, max_length, overlap)
    /\ pc' = "rag_done"
    /\ UNCHANGED <<rag_sections, dupVars, enrichVars>>
    /\ UNCHANGED <<max_length, overlap, nonRecordVars>>

RagNext == CallCreateRagChunks

SpecRag == RagInit /\ [][RagNext]_vars

(* Claims of create_rag_chunks *)

\* the windows of section s (1-based) of rag_sections
WindowsOfSection(s) == chunk_text(rag_sections[s].text, max_length, overlap)

\* the number of chunks of the sections before section s
RECURSIVE ChunksBeforeSection(_)
ChunksBeforeSection(s) ==
    IF s <= 1 THEN 0
    ELSE ChunksBeforeSection(s - 1) + Len(WindowsOfSection(s - 1))

\* the decimal digits of i < 10
OneDigit(i) ==
    <<CHOOSE c \in {"0", "1", "2", "3", "4", "5", "6", "7", "8", "9"} :
        DigitValue(c) = i>>

\* chunk c is built from window i (0-based) of section sec, whose text is w
BuiltFromWindow(c, sec, i, w) ==
    /\ c.id = sec.section_id \o <<"_">> \o OneDigit(i)
    /\ c.section_id = sec.section_id
    /\ c.section_title = sec.section_title
    /\ c.text = w
    /\ c.metadata.page_start = sec.start_page + 1
    /\ c.metadata.page_end = sec.end_page + 1

\* C19: create_rag_chunks emits the chunks in section order and, inside a
\* section, in window order; the chunk of window i of a section has id
\* "<section_id>_<i>", the section's id and title, page_start = start_page + 1
\* and page_end = end_page + 1; a section with empty text gives no chunk
C19_ChunksInSectionWindowOrder ==
    pc = "rag_done" =>
        /\ Len(rag_chunks) = ChunksBeforeSection(Len(rag_sections) + 1)
        /\ \A s \in 1..Len(rag_sections) :
              /\ \A i \in 0..(Len(WindowsOfSection(s)) - 1) :
                    BuiltFromWindow(rag_chunks[ChunksBeforeSection(s) + i + 1],
                                    rag_sections[s], i, WindowsOfSection(s)[i + 1])
              /\ rag_sections[s].text = <<>> => WindowsOfSection(s) = <<>>

\* a section with empty text followed by a section with several windows,
\* whose chunks are all the chunks
C19_Witness ==
    /\ pc = "rag_done"
    /\ Len(rag_sections) = 2
    /\ rag_sections[1].text = <<>>
    /\ Len(WindowsOfSection(2)) >= 2
    /\ Len(rag_chunks) = Len(WindowsOfSection(2))
    /\ rag_chunks[2].id = rag_sections[2].section_id \o <<"_", "1">>

-----------------------------------------------------------------------------
(* Claims of process_pdf: the document handles *)

\* process_pdf has returned or raised
PdfEnded == pc \in {"pdf_raised", "pdf_returned"}

\* C20: on every exit path of process_pdf (return, TOC not found, failure in
\* the extraction of the section text) every document handle it opened is
\* released; two handles are never open at once, the handle of the TOC steps
\* being released before the handle of the text extraction is opened
C20_HandlesReleased ==
    /\ Cardinality(handles) <= 1
    /\ PdfEnded => handles = {}
    /\ pc = "pdf_open_text" => handles = {}
    /\ "text_handle" \in handles => "toc_handle" \notin handles
    /\ pc \in {"pdf_find_toc", "pdf_extract_toc", "pdf_build_ranges"} =>
          handles = {"toc_handle"}
    /\ pc = "pdf_extract_text" => handles = {"text_handle"}

\* process_pdf raised from the extraction of the section text, after both
\* blocks were entered, and no handle is open
C20_Witness ==
    /\ pc = "pdf_raised"
    /\ pdf_error = ErrIndex
    /\ pdf_toc_page # -1
    /\ sections # <<>>
    /\ handles = {}

-----------------------------------------------------------------------------
(* Claims of the page indices of a document (SpecPdf) *)

\* the page indices extract_section_text asks the document for on behalf of a
\* section: range(start_page, end_page + 1)
PagesAsked(sec) == sec.start_page..sec.end_page

\* extract_section_text has run its loop over the sections
PdfTextExtracted == pc \in {"pdf_text_done", "pdf_text_raised"}

\* C21: every TOC entry the parser produced has page >= 1, every section
\* build_page_ranges made of them has start_page >= 0 and end_page >= 0, and
\* extract_section_text asks the document only for page indices of
\* 0..total_pages - 1
C21_PageIndicesInDocument ==
    /\ \A i \in 1..Len(toc) : toc[i].page >= 1
    /\ \A n \in 1..Len(sections) :
          sections[n].start_page >= 0 /\ sections[n].end_page >= 0
    /\ PdfTextExtracted =>
          \A n \in 1..Len(sections) :
              \A p \in PagesAsked(sections[n]) : p \in 0..(total_pages - 1)

-----------------------------------------------------------------------------
(* Specification of process_pdf on the end-to-end document: 20 pages, the TOC
   on printed page 2 listing section "1" at page 3 and section "2" at page 10,
   the header of section 1 on page 3 and the header of section 2 on page 10.
   The other pages are plain body text or have no text; some of them vary.
   Pages are numbered as printed here, page p being pages[p]. *)

\* the TOC page: the keyword and the two entries
EndToEndTocPage ==
    TOC_KEYWORD \o <<"\n", "1", " ", "T", " ", "3", "\n",
                     "2", " ", "U", " ", "1", "0">>

\* a page of body text
PageBodyPlain == <<"e", "f">>

\* the printed pages whose text varies: the cover, a page of the TOC window
\* after the header of section 1, a page inside section 1, one inside
\* section 2 and the last page
EndToEndVariedPages == {1, 4, 6, 15, 20}

EndToEndDocument(v) ==
    [p \in 1..20 |->
        IF p = 2 THEN EndToEndTocPage
        ELSE IF p = 3 THEN PageBodyOne
        ELSE IF p = 10 THEN PageBodyTwo
        ELSE IF p \in EndToEndVariedPages THEN v[p]
        ELSE PageBodyPlain]

EndToEndDocuments ==
    {EndToEndDocument(v) : v \in [EndToEndVariedPages -> {PageNoText, PageBodyPlain}]}

EndToEndInit ==
    /\ pc = "pdf_ready"
    /\ NonPdfIdle
    /\ pages \in EndToEndDocuments
    /\ total_pages = 0
    /\ toc = <<>>
    /\ sections = <<>>
    /\ results = <<>>
    /\ PdfIdle

SpecEndToEnd == EndToEndInit /\ [][PdfNext]_vars

(* Claims of the end-to-end document *)

\* the 0-based pages of all the returned sections together
PagesCovered == UNION {PagesOf(results[n]) : n \in 1..Len(results)}

\* C22: on the 20-page document with the TOC on page 2 listing section "1" at
\* page 3 and section "2" at page 10, process_pdf returns exactly two section
\* records, section "1" then section "2", whose page ranges together are
\* exactly the 0-based pages 2..19
C22_EndToEndTwoSections ==
    PdfEnded =>
        /\ pc = "pdf_returned"
        /\ Len(results) = 2
        /\ results[1].section_id = <<"1">>
        /\ results[2].section_id = <<"2">>
        /\ PagesCovered = 2..19

\* process_pdf has returned on such a document: the TOC was found on printed
\* page 2 with the entries for pages 3 and 10, and both sections have a body
C22_Witness ==
    /\ pc = "pdf_returned"
    /\ Len(pages) = 20
    /\ pdf_toc_page = 1
    /\ Len(toc) = 2
    /\ toc[1].page = 3
    /\ toc[2].page = 10
    /\ Len(results) = 2
    /\ results[1].text # <<>>
    /\ results[2].text # <<>>

-----------------------------------------------------------------------------
(* Claims of build_page_ranges: the page two consecutive sections share
   (SpecRanges) *)

\* entry i is not the last and the next entry is printed on a later page
NextPrintedLater(i) ==
    i + 1 <= Len(toc) /\ toc[i + 1].page > toc[i].page

\* the pages sections i and i + 1 have in common
SharedPages(i) == PagesOf(sections[i]) \cap PagesOf(sections[i + 1])

\* C23 as stated: for every non-final entry whose next entry is printed on a
\* strictly later page, end_page equals the start_page of the next section, and
\* the two sections have exactly one page in common, the next section's first
\* page
C23_ConsecutiveShareOnePage ==
    pc = "ranged" =>
        \A i \in 1..Len(sections) :
            NextPrintedLater(i) =>
                /\ sections[i].end_page = sections[i + 1].start_page
                /\ SharedPages(i) = {sections[i + 1].start_page}

\* C23 amended: for every such entry end_page equals the start_page of the next
\* section, that page is one of the section's own pages, and it is the one page
\* the two sections have in common unless the next section has no page at all,
\* which happens only for a final entry printed beyond the last page of the
\* document
C23_EndIsNextStartShared ==
    pc = "ranged" =>
        \A i \in 1..Len(sections) :
            NextPrintedLater(i) =>
                /\ sections[i].end_page = sections[i + 1].start_page
                /\ sections[i + 1].start_page \in PagesOf(sections[i])
                /\ IF PagesOf(sections[i + 1]) # {}
                   THEN SharedPages(i) = {sections[i + 1].start_page}
                   ELSE /\ SharedPages(i) = {}
                        /\ i + 1 = Len(sections)
                        /\ toc[i + 1].page > total_pages

\* three entries on later and later pages: sections 1 and 2 share the first
\* page of section 2, sections 2 and 3 the first page of section 3
C23_Witness ==
    /\ pc = "ranged"
    /\ Len(sections) = 3
    /\ NextPrintedLater(1)
    /\ NextPrintedLater(2)
    /\ SharedPages(1) = {sections[2].start_page}
    /\ SharedPages(2) = {sections[3].start_page}
    /\ sections[1].end_page > sections[1].start_page

-----------------------------------------------------------------------------
(* Specification of the while loop of chunk_text, iteration by iteration, for
   a TextChunker built with any max_length and overlap: __init__ stores what it
   is given, and BatchPDFProcessor.__init__ hands chunk_size and chunk_overlap
   on as they come. The model stops following a loop after MaxLoopSteps
   iterations. *)

\* iterations of the while loop the model follows
MaxLoopSteps == 6

\* the values of max_length and of overlap
LoopParams == -1..MaxChunkLen

\* a slice index i of a sequence of length n: a negative index counts from the
\* end, and every index is clipped to 0..n
SliceIndex(n, i) ==
    IF i < 0 THEN (IF n + i < 0 THEN 0 ELSE n + i) ELSE Min(i, n)

\* s[a:b] for any integers a and b
PySlice(s, a, b) ==
    SubSeq(s, SliceIndex(Len(s), a) + 1, SliceIndex(Len(s), b))

LoopInit ==
    /\ pc = "loop_ready"
    /\ NonChunkIdle
    /\ text \in SeqsUpTo(TextChars, MaxTextLen)
    /\ max_length \in LoopParams
    /\ overlap \in LoopParams
    /\ chunks = <<>>
    /\ src_window = 0
    /\ rechunked = <<>>
    /\ loop_start = 0

\* chunks = []; start = 0
LoopEnter ==
    /\ pc = "loop_ready"
    /\ chunks' = <<>>
    /\ loop_start' = 0
    /\ pc' = "loop_test"
    /\ UNCHANGED <<text, max_length, overlap, src_window, rechunked>>
    /\ UNCHANGED nonChunkVars

\* while start < len(text)
LoopContinues == loop_start < Len(text)

\* one run of the loop body
LoopIterate ==
    /\ pc = "loop_test"
    /\ LoopContinues
    /\ Len(chunks) < MaxLoopSteps
    /\ chunks' = Append(chunks,
                        PySlice(text, loop_start, loop_start + max_length))
    /\ loop_start' = NextStart(loop_start + max_length, overlap)
    /\ UNCHANGED <<pc, text, max_length, overlap, src_window, rechunked>>
    /\ UNCHANGED nonChunkVars

\* the loop condition is false: return chunks
LoopReturn ==
    /\ pc = "loop_test"
    /\ ~LoopContinues
    /\ pc' = "loop_returned"
    /\ UNCHANGED <<text, max_length, overlap, chunks, src_window, rechunked,
                   loop_start>>
    /\ UNCHANGED nonChunkVars

LoopNext == LoopEnter \/ LoopIterate \/ LoopReturn

SpecChunkLoop == LoopInit /\ [][LoopNext]_vars

\* with 0 <= overlap < max_length the loop returns what chunk_text gives as a
\* whole
LoopAgrees ==
    (pc = "loop_returned" /\ 0 <= overlap /\ overlap < max_length) =>
        chunks = chunk_text(text, max_length, overlap)

(* Claims of the while loop of chunk_text *)

\* C24: nothing checks overlap < max_length; with overlap >= max_length and a
\* non-empty text the window start never gets past the text length, so the
\* loop condition holds at every test, every test is followed by another
\* append and chunk_text never returns; with an empty text the condition is
\* false at the first test, for any parameters, and [] is returned
C24_NoReturnUnlessOverlapBelowLength ==
    /\ (overlap >= max_length /\ text # <<>>) =>
          /\ pc # "loop_returned"
          /\ pc = "loop_test" => (LoopContinues /\ loop_start <= 0)
    /\ (text = <<>> /\ pc \in {"loop_test", "loop_returned"}) =>
          (~LoopContinues /\ chunks = <<>>)

\* the loop has appended three windows of a non-empty text with
\* overlap >= max_length and its condition still holds
C24_Witness ==
    /\ pc = "loop_test"
    /\ overlap >= max_length
    /\ max_length >= 1
    /\ text # <<>>
    /\ Len(chunks) >= 3
    /\ LoopContinues

-----------------------------------------------------------------------------
(* Claims of process_and_save on a directory without PDF files (SpecSave) *)

\* the directory holds no PDF file
NoPdfFile == get_pdf_files(pdf_dir) = <<>>

\* process_all has returned
ProcessAllReturned == pc \notin {"batch_ready", "batch_loop"}

\* C25: on a directory with no PDF file process_all returns a 'failed' record
\* that carries a message and nothing else (no count, no chunk list), and
\* process_and_save then ends in an error with nothing written; the error is
\* the missing total_chunks key, not the one of the zero-chunk check
C25_NoPdfFileEndsInKeyError ==
    (NoPdfFile /\ ProcessAllReturned) =>
        /\ batch_result.status = "failed"
        /\ DOMAIN batch_result = {"status", "message"}
        /\ pc \in {"batch_done", "save_raised"}
        /\ io_log = <<>>
        /\ pc = "save_raised" =>
              (save_error = ErrKeyTotalChunks /\ save_error # ErrNoChunks)

\* process_and_save has ended in the KeyError on a directory that holds a file,
\* but no PDF file
C25_Witness ==
    /\ pc = "save_raised"
    /\ DOMAIN pdf_dir = {OtherFile}
    /\ pdf_files = <<>>
    /\ save_error = ErrKeyTotalChunks
    /\ io_log = <<>>

-----------------------------------------------------------------------------
(* Claims of the chunk ids (SpecBatch) *)

\* the number of windows of a section
WindowCount(sec, l, o) == Len(chunk_text(sec.text, l, o))

\* the number of chunks create_rag_chunks appends for the sections before
\* section n (1-based)
RECURSIVE ChunksBefore(_, _, _, _)
ChunksBefore(secs, n, l, o) ==
    IF n = 1 THEN 0
    ELSE ChunksBefore(secs, n - 1, l, o) + WindowCount(secs[n - 1], l, o)

\* the pairs <<n, i>> of a section (1-based) and one of its window indexes
\* (0-based): one pair per appended chunk
ChunkOrigins(secs, l, o) ==
    UNION {{<<n, i>> : i \in 0..(WindowCount(secs[n], l, o) - 1)} :
              n \in 1..Len(secs)}

\* the chunk of the list cs made for window p[2] of section p[1]
ChunkOf(cs, secs, p, l, o) == cs[ChunksBefore(secs, p[1], l, o) + p[2] + 1]

\* two different chunks of cs have the same id if and only if they come from
\* two different sections with equal section_id and have the same window index
SameIdIffSameSectionIdAndWindow(secs, cs, l, o) ==
    /\ Len(cs) = Cardinality(ChunkOrigins(secs, l, o))
    /\ \A p, q \in ChunkOrigins(secs, l, o) :
          p # q =>
              (ChunkOf(cs, secs, p, l, o).id = ChunkOf(cs, secs, q, l, o).id
                  <=> /\ p[1] # q[1]
                      /\ secs[p[1]].section_id = secs[q[1]].section_id
                      /\ p[2] = q[2])

\* the ids of cs are pairwise distinct
IdsDistinct(cs) ==
    \A j, k \in 1..Len(cs) : j # k => cs[j].id # cs[k].id

\* no two sections that have text share a section_id
NoSharedSectionId(secs) ==
    \A m, n \in 1..Len(secs) :
        (m # n /\ secs[m].text # <<>> /\ secs[n].text # <<>>) =>
            secs[m].section_id # secs[n].section_id

\* the ids of the chunks cs of one document whose sections are secs
IdsWithinDocument(secs, cs, l, o) ==
    /\ SameIdIffSameSectionIdAndWindow(secs, cs, l, o)
    /\ IdsDistinct(cs) <=> NoSharedSectionId(secs)

\* a chunk of one document and a chunk of another have the same id if and
\* only if their sections have equal section_id and their window indexes are
\* equal: nothing of the document is in the id
IdsAcrossDocuments(secs1, cs1, secs2, cs2, l, o) ==
    \A p \in ChunkOrigins(secs1, l, o) : \A q \in ChunkOrigins(secs2, l, o) :
        ChunkOf(cs1, secs1, p, l, o).id = ChunkOf(cs2, secs2, q, l, o).id
            <=> /\ secs1[p[1]].section_id = secs2[q[1]].section_id
                /\ p[2] = q[2]

\* the sections process_pdf returned for the document of success record r
SectionsOf(r) == process_pdf(pdf_dir[r.filename]).results

\* the success records among the results of the batch, by position
SuccessPositions ==
    {j \in 1..Len(batch_results) : batch_results[j].status = "success"}

\* C26: in the chunks of one document two different chunks have the same id
\* exactly when they come from two different sections with equal section_id
\* and have the same window index, so the ids of a document are pairwise
\* distinct exactly when no two of its sections with text share a section_id;
\* and in the chunk list of the batch chunks of different documents have the
\* same id whenever their section ids and window indexes are equal
C26_SameIdIffSameSectionIdAndWindow ==
    /\ \A j \in SuccessPositions :
          IdsWithinDocument(SectionsOf(batch_results[j]),
                            batch_results[j].chunks, max_length, overlap)
    /\ \A j, k \in SuccessPositions :
          j # k =>
              IdsAcrossDocuments(SectionsOf(batch_results[j]),
                                 batch_results[j].chunks,
                                 SectionsOf(batch_results[k]),
                                 batch_results[k].chunks, max_length, overlap)
    /\ all_chunks = SuccessfulChunks(batch_results)

\* the batch has returned a chunk list in which two chunks of one document
\* have the same id, a third chunk of that document has an id of its own, and
\* a chunk of another document has the same id as one of them
C26_Witness ==
    /\ pc = "batch_done"
    /\ \E j \in SuccessPositions :
          /\ ~IdsDistinct(batch_results[j].chunks)
          /\ \E a \in 1..Len(batch_results[j].chunks) :
                \A b \in 1..Len(batch_results[j].chunks) :
                    a # b => batch_results[j].chunks[a].id
                                 # batch_results[j].chunks[b].id
          /\ \E k \in SuccessPositions :
                /\ k # j
                /\ pdf_dir[batch_results[k].filename]
                      # pdf_dir[batch_results[j].filename]
                /\ \E a \in 1..Len(batch_results[j].chunks) :
                      \E b \in 1..Len(batch_results[k].chunks) :
                          batch_results[j].chunks[a].id
                              = batch_results[k].chunks[b].id
    /\ ~IdsDistinct(all_chunks)

====
